---------------------------- MODULE Spec2Model ----------------------------
(***************************************************************************)
(* Model of the prescription reader (src/app.py) and the symptom predictor *)
(* (src/symptom_predictor.py): JSON recovery, the confidence normalizer    *)
(* with its heuristic fallback, and the Streamlit session state machine.   *)
(*                                                                         *)
(* Text is a sequence of one-character strings, so that the string         *)
(* operations of the code (strip, replace, index, count, lower, title) are *)
(* computed and not assumed.  A probability is an integer number of        *)
(* 1/100000 ("units"): 0.30 is 30000, round(x, 3) yields multiples of 100. *)
(***************************************************************************)
EXTENDS Integers, Sequences, FiniteSets, TLC

VARIABLES
  \* the confidence normalizer applied to a candidate list and a symptom text
  preds,                    \* data["predictions"] of the model's object
  combined_text,            \* the text built from checklist and free text
  preds_final,              \* preds_final of the results rendering
  preds_again,              \* preds_final fed through the rendering once more
  norm_pc,                  \* "idle", "input", "normalized", "renormalized"
  \* JSON recovery applied to a raw model text
  raw_text,                 \* the text handed to parse_gemini_json
  parsed_app,               \* result of parse_gemini_json of app.py
  parsed_pred,              \* result of parse_gemini_json of symptom_predictor.py
  parse_pc,                 \* "idle", "input", "app_parsed", "parsed", "compared"
  wrap_input,               \* the object text and the wrapping raw_text was built from
  plain,                    \* results of both functions on the object text alone
  \* the Streamlit session of the running script
  app,                      \* "extractor" (app.py) or "predictor"
  client,                   \* TRUE when genai.Client() was created
  requests,                 \* generate_content calls issued so far
  last,                     \* what the last script run did
  selected_symptoms,        \* st.session_state.selected_symptoms
  custom_symptoms,          \* st.session_state.custom_symptoms
  symptom_free_text_input,  \* the free text widget
  predictions_data,         \* st.session_state.predictions_data
  predictions_raw,          \* st.session_state.predictions_raw
  user_match,               \* positions idx whose user_match_{idx} key is set
  prescription_text,        \* the prescription text widget
  uploaded_file,            \* TRUE when a file is in the uploader
  analysis_data,            \* st.session_state.analysis_data
  analysis_raw,             \* st.session_state.analysis_raw
  shown                     \* what the results column shows after the run

normVars  == <<preds, combined_text, preds_final, preds_again, norm_pc>>
parseVars == <<raw_text, parsed_app, parsed_pred, parse_pc, wrap_input, plain>>
sessionVars == <<selected_symptoms, custom_symptoms, symptom_free_text_input,
                 predictions_data, predictions_raw, user_match,
                 prescription_text, uploaded_file, analysis_data, analysis_raw>>
uiVars    == <<app, client, requests, last, sessionVars, shown>>
vars      == <<normVars, parseVars, uiVars>>

(***************************************************************************)
(* Python string operations                                                *)
(***************************************************************************)
UpperChars == <<"A","B","C","D","E","F","G","H","I","J","K","L","M","N","O","P","Q","R","S","T","U","V","W","X","Y","Z">>

LowerChars == <<"a","b","c","d","e","f","g","h","i","j","k","l","m","n","o","p","q","r","s","t","u","v","w","x","y","z">>

IndexIn(c, seq) == IF \E i \in 1..Len(seq) : seq[i] = c
                   THEN CHOOSE i \in 1..Len(seq) : seq[i] = c
                   ELSE 0

IsUpper(c) == IndexIn(c, UpperChars) > 0

IsLower(c) == IndexIn(c, LowerChars) > 0

IsCased(c) == IsUpper(c) \/ IsLower(c)

lower_char(c) == IF IsUpper(c) THEN LowerChars[IndexIn(c, UpperChars)] ELSE c

upper_char(c) == IF IsLower(c) THEN UpperChars[IndexIn(c, LowerChars)] ELSE c

\* str.lower()
str_lower(s) == [i \in 1..Len(s) |-> lower_char(s[i])] \o << >>

\* str.title(): a cased character is upper-cased after an uncased one (or at
\* the start) and lower-cased after a cased one.
str_title(s) == [i \in 1..Len(s) |->
                   IF i = 1 \/ ~IsCased(s[i-1]) THEN upper_char(s[i]) ELSE lower_char(s[i])] \o << >>

IsSpace(c) == c \in {" ", "\n", "\t", "\r"}

\* str.strip()
str_strip(s) ==
  IF \A i \in 1..Len(s) : IsSpace(s[i]) THEN << >>
  ELSE LET a == CHOOSE i \in 1..Len(s) : ~IsSpace(s[i]) /\ \A j \in 1..(i-1) : IsSpace(s[j])
           b == CHOOSE i \in 1..Len(s) : ~IsSpace(s[i]) /\ \A j \in (i+1)..Len(s) : IsSpace(s[j])
       IN  SubSeq(s, a, b)

\* sub occurs in s at position i
OccursAt(sub, s, i) == /\ i >= 1
                       /\ i + Len(sub) - 1 <= Len(s)
                       /\ \A k \in 1..Len(sub) : s[i + k - 1] = sub[k]

\* sub in s
str_in(sub, s) ==
  \/ sub = << >>
  \/ \E i \in 1..(Len(s) - Len(sub) + 1) : s[i] = sub[1] /\ OccursAt(sub, s, i)

\* s.index(c) and s.rindex(c) for a one-character c; 0 stands for ValueError
str_index(s, c) == IF \E i \in 1..Len(s) : s[i] = c
                   THEN CHOOSE i \in 1..Len(s) : s[i] = c /\ \A j \in 1..(i-1) : s[j] # c
                   ELSE 0

str_rindex(s, c) == IF \E i \in 1..Len(s) : s[i] = c
                    THEN CHOOSE i \in 1..Len(s) : s[i] = c /\ \A j \in (i+1)..Len(s) : s[j] # c
                    ELSE 0

\* the concatenation of the sequences p[1], ..., p[Len(p)]
RECURSIVE FlattenRange(_, _, _)
FlattenRange(p, lo, hi) ==
  IF lo > hi THEN << >>
  ELSE IF lo = hi THEN p[lo]
  ELSE FlattenRange(p, lo, (lo + hi) \div 2) \o FlattenRange(p, (lo + hi) \div 2 + 1, hi)

Flatten(p) == FlattenRange(p, 1, Len(p))

\* the occurrences of sub that a left-to-right scan takes: those that no
\* earlier taken occurrence overlaps (sub non-empty)
RECURSIVE Taken(_, _, _)
Taken(s, sub, i) ==
  /\ i >= 1 /\ i <= Len(s) /\ s[i] = sub[1]
  /\ OccursAt(sub, s, i)
  /\ \A j \in (i - Len(sub) + 1)..(i - 1) : ~Taken(s, sub, j)

\* s.count(sub)
str_count(s, sub) == Cardinality({i \in 1..Len(s) : Taken(s, sub, i)})

\* s.replace(old, new)
str_replace(s, old, new) ==
  IF ~str_in(old, s) THEN s
  ELSE Flatten([i \in 1..Len(s) |->
                  IF Taken(s, old, i) THEN new
                  ELSE IF \E j \in (i - Len(old) + 1)..(i - 1) : Taken(s, old, j) THEN << >>
                  ELSE <<s[i]>>])

\* sep.join(parts)
str_join(sep, parts) ==
  Flatten([i \in 1..Len(parts) |-> IF i = 1 THEN parts[i] ELSE sep \o parts[i]])


(***************************************************************************)
(* String literals of the source.  A TLA+ string cannot hold a backquote:  *)
(* BQ is that character.                                                   *)
(***************************************************************************)
BQ == "BQ"

k_disease == <<"d","i","s","e","a","s","e">>

k_probability == <<"p","r","o","b","a","b","i","l","i","t","y">>

k_description == <<"d","e","s","c","r","i","p","t","i","o","n">>

k_consult == <<"c","o","n","s","u","l","t">>

k_precautions == <<"p","r","e","c","a","u","t","i","o","n","s">>

k_links == <<"l","i","n","k","s">>

k_predictions == <<"p","r","e","d","i","c","t","i","o","n","s">>

k_note == <<"n","o","t","e">>

k_name == <<"n","a","m","e">>

k_medicines == <<"m","e","d","i","c","i","n","e","s">>

k_interactions == <<"i","n","t","e","r","a","c","t","i","o","n","s">>

s_Unknown == <<"U","n","k","n","o","w","n">>

FenceJson == <<BQ,BQ,BQ,"j","s","o","n">>

Fence == <<BQ,BQ,BQ>>

ChecklistPrefix == <<"C","h","e","c","k","l","i","s","t",":"," ">>

ChecklistSep == <<","," ">>

ChecklistEnd == <<"."," ">>

FreeTextPrefix == <<"F","r","e","e"," ","t","e","x","t",":"," ">>

NoClientDiag == <<"*","*","E","r","r","o","r",":","*","*"," ","G","e","m","i","n","i"," ","c","l","i","e","n","t"," ","n","o","t"," ","i","n","i","t","i","a","l","i","z","e","d","."," ","C","h","e","c","k"," ","y","o","u","r"," ","A","P","I"," ","k","e","y",".">>

EmptyDiag == <<"*","*","E","r","r","o","r",":","*","*"," ","E","m","p","t","y"," ","r","e","s","p","o","n","s","e"," ","f","r","o","m"," ","m","o","d","e","l",".">>

ApiErrorPrefix == <<"A","n"," ","e","r","r","o","r"," ","o","c","c","u","r","r","e","d"," ","d","u","r","i","n","g"," ","A","P","I"," ","c","a","l","l",":"," ">>

(***************************************************************************)
(* Python / JSON values.  None (also JSON null) is PyNone; an object is    *)
(* its sequence of <<key, value>> pairs in insertion order, keys unique.   *)
(***************************************************************************)
PyNone == [t |-> "none"]

JBool(b) == [t |-> "bool", b |-> b]

JNum(n) == [t |-> "num", n |-> n]

JStr(s) == [t |-> "str", s |-> s]

JList(xs) == [t |-> "list", xs |-> xs]

JObj(kv) == [t |-> "obj", kv |-> kv]

\* bool(v)
Truthy(v) == CASE v.t = "none" -> FALSE
               [] v.t = "bool" -> v.b
               [] v.t = "num"  -> v.n # 0
               [] v.t = "str"  -> v.s # << >>
               [] v.t = "list" -> v.xs # << >>
               [] v.t = "obj"  -> v.kv # << >>

HasKey(o, k) == \E i \in 1..Len(o.kv) : o.kv[i][1] = k

\* dict.get(k, default)
dict_get(o, k, default) ==
  IF HasKey(o, k) THEN o.kv[CHOOSE i \in 1..Len(o.kv) : o.kv[i][1] = k][2] ELSE default

\* d[k] = v on a pair sequence: an existing key keeps its place
dict_set(kv, k, v) ==
  IF \E i \in 1..Len(kv) : kv[i][1] = k
  THEN [i \in 1..Len(kv) |-> IF kv[i][1] = k THEN <<k, v>> ELSE kv[i]] \o << >>
  ELSE Append(kv, <<k, v>>)

\* x or y
py_or(x, y) == IF Truthy(x) THEN x ELSE y

(***************************************************************************)
(* json.loads: a recursive-descent reading of the JSON grammar.  A result  *)
(* is [ok, val, pos]: pos is the index after the value read.  why is       *)
(* "unsupported" for JSON this model does not read (exponents, \u escapes, *)
(* NaN/Infinity, fractions finer than one unit).                           *)
(***************************************************************************)
One == 100000


Digits == <<"0","1","2","3","4","5","6","7","8","9">>

IsDigit(c) == IndexIn(c, Digits) > 0

DigitVal(c) == IndexIn(c, Digits) - 1

Fail == [ok |-> FALSE, val |-> PyNone, pos |-> 0, why |-> "syntax"]

Unsupported == [ok |-> FALSE, val |-> PyNone, pos |-> 0, why |-> "unsupported"]

Ok(v, p) == [ok |-> TRUE, val |-> v, pos |-> p, why |-> ""]

IsJsonWs(c) == c \in {" ", "\t", "\n", "\r"}

\* the first index from i on that holds no whitespace (Len(s) + 1 if none)
SkipWs(s, i) ==
  IF \E j \in i..Len(s) : ~IsJsonWs(s[j])
  THEN CHOOSE j \in i..Len(s) : ~IsJsonWs(s[j]) /\ \A k \in i..(j - 1) : IsJsonWs(s[k])
  ELSE Len(s) + 1

At(s, i, c) == i <= Len(s) /\ s[i] = c

Pow10(k) == 10 ^ (IF k > 9 THEN 9 ELSE k)

\* the digits s[i..] as <<value, number of digits, next index>>
RECURSIVE ReadDigits(_, _, _, _)
ReadDigits(s, i, acc, n) ==
  IF i <= Len(s) /\ IsDigit(s[i])
  THEN ReadDigits(s, i + 1, acc * 10 + DigitVal(s[i]), n + 1)
  ELSE <<acc, n, i>>

\* (0|[1-9]\d*) at j, as ReadDigits gives it
IntegerAt(s, j) == IF At(s, j, "0") THEN <<0, 1, j + 1>> ELSE ReadDigits(s, j, 0, 0)

\* (\.\d+)? at k, as ReadDigits gives it
FractionAt(s, k) ==
  IF At(s, k, ".") /\ k + 1 <= Len(s) /\ IsDigit(s[k + 1])
  THEN ReadDigits(s, k + 1, 0, 0)
  ELSE <<0, 0, k>>

\* the number with integer part ip and fraction fp, in units
NumberOf(s, neg, ip, fp) ==
  IF ip[2] = 0 THEN Fail
  ELSE IF Pow10(fp[2]) > One \/ At(s, fp[3], "e") \/ At(s, fp[3], "E") THEN Unsupported
  ELSE Ok(JNum((IF neg THEN 0 - 1 ELSE 1)
               * (ip[1] * One + fp[1] * (One \div Pow10(fp[2])))), fp[3])

NumberAfterSign(s, neg, ip) == NumberOf(s, neg, ip, FractionAt(s, ip[3]))

\* -?(0|[1-9]\d*)(\.\d+)? at i, in units
ParseNumber(s, i) ==
  NumberAfterSign(s, At(s, i, "-"), IntegerAt(s, IF At(s, i, "-") THEN i + 1 ELSE i))

\* the number of consecutive backslashes that end just before index j,
\* counted from index i on
BackslashesBefore(s, i, j) ==
  Cardinality({k \in i..(j - 1) : \A m \in k..(j - 1) : s[m] = "\\"})

\* s[j] is a backslash that opens an escape of the string that starts at i
OpensEscape(s, i, j) == s[j] = "\\" /\ BackslashesBefore(s, i, j) % 2 = 0

\* s[j] is the character an escape names
IsEscaped(s, i, j) == BackslashesBefore(s, i, j) % 2 = 1

\* the backspace and form feed characters, which a TLA+ string cannot hold
BS == "BS"

FF == "FF"

Unescape(c) == CASE c = "n" -> "\n" [] c = "t" -> "\t" [] c = "r" -> "\r"
                 [] c = "b" -> BS [] c = "f" -> FF [] OTHER -> c

\* the body of a string after its opening quote (i is the index after it):
\* up to the first quote that no backslash escapes; a raw control character
\* or an unknown escape is an error
StrBody(s, i, acc) ==
  IF ~\E j \in i..Len(s) : s[j] = "\"" /\ ~IsEscaped(s, i, j) THEN Fail
  ELSE LET close == CHOOSE j \in i..Len(s) :
                       /\ s[j] = "\"" /\ ~IsEscaped(s, i, j)
                       /\ \A k \in i..(j - 1) : ~(s[k] = "\"" /\ ~IsEscaped(s, i, k))
           body  == Flatten([n \in 1..(close - i) |->
                       LET j == i + n - 1
                       IN  IF OpensEscape(s, i, j) THEN << >>
                           ELSE IF IsEscaped(s, i, j) THEN <<Unescape(s[j])>>
                           ELSE <<s[j]>>])
       IN  IF \E j \in i..(close - 1) :
                \/ s[j] \in {"\n", "\t", "\r"}
                \/ IsEscaped(s, i, j) /\ s[j] \notin {"\"", "\\", "/", "n", "t", "r", "u", "b", "f"}
           THEN Fail
           ELSE IF \E j \in i..(close - 1) : IsEscaped(s, i, j) /\ s[j] = "u"
           THEN Unsupported
           ELSE Ok(JStr(acc \o body), close + 1)

IsWordAt(w, s, i) == OccursAt(w, s, i)

RECURSIVE ParseValue(_, _)
RECURSIVE ParseElems(_, _, _)
RECURSIVE ParseMembers(_, _, _)

\* an array after its element v: a comma and more elements, or the end
ElemsAfter(s, acc, v) ==
  LET j == SkipWs(s, v.pos)
  IN  IF ~v.ok THEN v
      ELSE IF At(s, j, ",") THEN ParseElems(s, SkipWs(s, j + 1), Append(acc, v.val))
      ELSE IF At(s, j, "]") THEN Ok(JList(Append(acc, v.val)), j + 1)
      ELSE Fail

\* the elements of an array from the first one on (after "[" and whitespace)
ParseElems(s, i, acc) == ElemsAfter(s, acc, ParseValue(s, i))

\* an object after the value v of its key k
MembersAfter(s, acc, k, v) ==
  LET j == SkipWs(s, v.pos)
  IN  IF ~v.ok THEN v
      ELSE IF At(s, j, ",")
           THEN ParseMembers(s, SkipWs(s, j + 1), dict_set(acc, k.val.s, v.val))
      ELSE IF At(s, j, "}") THEN Ok(JObj(dict_set(acc, k.val.s, v.val)), j + 1)
      ELSE Fail

\* an object after its key k: the colon and the value
MemberOf(s, acc, k) ==
  LET c == SkipWs(s, k.pos)
  IN  IF ~k.ok THEN k
      ELSE IF ~At(s, c, ":") THEN Fail
      ELSE MembersAfter(s, acc, k, ParseValue(s, SkipWs(s, c + 1)))

\* the members of an object from the first key on (after "{" and whitespace)
ParseMembers(s, i, acc) ==
  IF ~At(s, i, "\"") THEN Fail ELSE MemberOf(s, acc, StrBody(s, i + 1, << >>))

ParseValue(s, i) ==
  IF i > Len(s) THEN Fail
  ELSE IF s[i] = "\"" THEN StrBody(s, i + 1, << >>)
  ELSE IF s[i] = "{" THEN
         LET j == SkipWs(s, i + 1)
         IN  IF At(s, j, "}") THEN Ok(JObj(<< >>), j + 1) ELSE ParseMembers(s, j, << >>)
  ELSE IF s[i] = "[" THEN
         LET j == SkipWs(s, i + 1)
         IN  IF At(s, j, "]") THEN Ok(JList(<< >>), j + 1) ELSE ParseElems(s, j, << >>)
  ELSE IF IsWordAt(<<"n","u","l","l">>, s, i) THEN Ok(PyNone, i + 4)
  ELSE IF IsWordAt(<<"t","r","u","e">>, s, i) THEN Ok(JBool(TRUE), i + 4)
  ELSE IF IsWordAt(<<"f","a","l","s","e">>, s, i) THEN Ok(JBool(FALSE), i + 5)
  ELSE IF s[i] = "N" \/ s[i] = "I" \/ (s[i] = "-" /\ At(s, i + 1, "I")) THEN Unsupported
  ELSE IF s[i] = "-" \/ IsDigit(s[i]) THEN ParseNumber(s, i)
  ELSE Fail

\* a parsed value v with nothing but whitespace after it
WholeText(s, v) ==
  IF ~v.ok THEN v
  ELSE IF SkipWs(s, v.pos) = Len(s) + 1 THEN v
  ELSE Fail

\* json.loads(s): one value, whitespace around it, nothing after
json_loads(s) == WholeText(s, ParseValue(s, SkipWs(s, 1)))

\* re.sub(r",\s*([}\]])", r"\1", s)
IsReSpace(c) == c \in {" ", "\t", "\n", "\r"}

\* the first index from i on that holds no \s character (Len(s) + 1 if none)
SkipReSpace(s, i) ==
  IF \E j \in i..Len(s) : ~IsReSpace(s[j])
  THEN CHOOSE j \in i..Len(s) : ~IsReSpace(s[j]) /\ \A k \in i..(j - 1) : IsReSpace(s[k])
  ELSE Len(s) + 1

\* variant: the pattern ,\s*} that leaves the comma before a "]"
CommaMatchBeforeBrace(s, i) ==
  /\ s[i] = ","
  /\ SkipReSpace(s, i + 1) <= Len(s)
  /\ s[SkipReSpace(s, i + 1)] = "}"

\* a match of ,\s*[}\]] starts at the comma s[i]
CommaMatchAt(s, i) ==
  /\ s[i] = ","
  /\ SkipReSpace(s, i + 1) <= Len(s)
  /\ s[SkipReSpace(s, i + 1)] \in {"}", "]"}

\* variant: the pattern ,\s* without the closing bracket, every comma goes
strip_every_comma(s) ==
  Flatten([i \in 1..Len(s) |->
             IF s[i] = "," THEN << >>
             ELSE IF /\ IsReSpace(s[i])
                     /\ \E c \in 1..(i - 1) : /\ s[c] = ","
                                              /\ \A k \in (c + 1)..i : IsReSpace(s[k])
                  THEN << >>
             ELSE <<s[i]>>])

\* the comma and the whitespace of every match go, its bracket stays; two
\* matches never overlap, since a match holds one comma, at its start
strip_trailing_commas(s) ==
  Flatten([i \in 1..Len(s) |->
             IF CommaMatchAt(s, i) THEN << >>
             ELSE IF /\ IsReSpace(s[i])
                     /\ \E c \in 1..(i - 1) : /\ CommaMatchAt(s, c)
                                              /\ \A k \in (c + 1)..i : IsReSpace(s[k])
                  THEN << >>
             ELSE <<s[i]>>])

(***************************************************************************)
(* parse_gemini_json.  raw is None or a str; PyNone is the "no data"       *)
(* result.                                                                 *)
(***************************************************************************)
\* raw.strip().replace("```json", "").replace("```", "").strip()
fence_removed(s) ==
  str_strip(str_replace(str_replace(str_strip(s), FenceJson, << >>), Fence, << >>))

\* the try block around index and rindex: the span of the cleaned text r
\* from the first "{" to the last "}", or NoSpan for the ValueError branch;
\* then the trailing-comma removal
NoSpan == <<"<ValueError>">>

brace_span(r, start, end) ==
  IF start = 0 \/ end = 0 THEN NoSpan
  ELSE strip_trailing_commas(SubSeq(r, start, end))

\* variant: without a "{" or a "}" the whole cleaned text is the span
span_of_or_whole_text(r) ==
  IF str_index(r, "{") = 0 \/ str_rindex(r, "}") = 0 THEN strip_trailing_commas(r)
  ELSE brace_span(r, str_index(r, "{"), str_rindex(r, "}"))

span_of(r) == brace_span(r, str_index(r, "{"), str_rindex(r, "}"))

json_span(s) == span_of(fence_removed(s))

\* json.loads inside a try: r is what json_loads gives
loads_or_none(r) == IF r.ok THEN r.val ELSE PyNone

\* src/app.py: one strict parse
parse_span_app(json_str) ==
  IF json_str = NoSpan THEN PyNone ELSE loads_or_none(json_loads(json_str))

parse_gemini_json_app(raw) ==
  IF ~Truthy(raw) THEN PyNone ELSE parse_span_app(json_span(raw.s))

\* src/symptom_predictor.py: a second parse with ' replaced by "
retry_single_quotes(json_str, r) ==
  IF r.ok THEN r.val
  ELSE loads_or_none(json_loads(str_replace(json_str, <<"'">>, <<"\"">>)))

parse_span(json_str) ==
  IF json_str = NoSpan THEN PyNone
  ELSE retry_single_quotes(json_str, json_loads(json_str))

parse_gemini_json(raw) ==
  IF ~Truthy(raw) THEN PyNone ELSE parse_span(json_span(raw.s))

(***************************************************************************)
(* The keyword table of the fallback heuristic, in the order of the source *)
(* (a dict keeps insertion order): <<condition, keywords>>.                *)
(***************************************************************************)
COMMON_HEURISTIC_MAP == <<
  <<<<"c","o","m","m","o","n"," ","c","o","l","d">>,
    <<<<"r","u","n","n","y"," ","n","o","s","e">>,
      <<"s","n","e","e","z","i","n","g">>,
      <<"s","o","r","e"," ","t","h","r","o","a","t">>,
      <<"n","a","s","a","l">>,
      <<"c","o","n","g","e","s","t","i","o","n">>>>>>,
  <<<<"i","n","f","l","u","e","n","z","a"," ","(","f","l","u",")">>,
    <<<<"h","i","g","h"," ","f","e","v","e","r">>,
      <<"b","o","d","y"," ","a","c","h","e">>,
      <<"b","o","d","y"," ","a","c","h","e","s">>,
      <<"c","h","i","l","l","s">>,
      <<"h","i","g","h"," ","f","e","v","e","r">>>>>>,
  <<<<"c","o","v","i","d","-","1","9">>,
    <<<<"l","o","s","s"," ","o","f"," ","s","m","e","l","l">>,
      <<"l","o","s","s"," ","o","f"," ","t","a","s","t","e">>,
      <<"c","o","v","i","d">>,
      <<"s","o","r","e"," ","t","h","r","o","a","t">>,
      <<"f","e","v","e","r">>,
      <<"d","r","y"," ","c","o","u","g","h">>>>>>,
  <<<<"u","r","i","n","a","r","y"," ","t","r","a","c","t"," ","i","n","f","e","c","t","i","o","n">>,
    <<<<"p","a","i","n","f","u","l"," ","u","r","i","n","a","t","i","o","n">>,
      <<"b","l","o","o","d"," ","i","n"," ","u","r","i","n","e">>,
      <<"f","r","e","q","u","e","n","t"," ","u","r","i","n","a","t","i","o","n">>,
      <<"b","u","r","n","i","n","g"," ","u","r","i","n","a","t","i","o","n">>>>>>,
  <<<<"g","a","s","t","r","o","e","n","t","e","r","i","t","i","s">>,
    <<<<"d","i","a","r","r","h","e","a">>,
      <<"v","o","m","i","t","i","n","g">>,
      <<"s","t","o","m","a","c","h"," ","p","a","i","n">>,
      <<"a","b","d","o","m","i","n","a","l"," ","c","r","a","m","p","s">>,
      <<"n","a","u","s","e","a">>>>>>,
  <<<<"m","i","g","r","a","i","n","e">>,
    <<<<"m","i","g","r","a","i","n","e">>,
      <<"o","n","e","-","s","i","d","e","d"," ","h","e","a","d","a","c","h","e">>,
      <<"t","h","r","o","b","b","i","n","g"," ","h","e","a","d","a","c","h","e">>,
      <<"a","u","r","a">>>>>>,
  <<<<"p","c","o","s">>,
    <<<<"i","r","r","e","g","u","l","a","r"," ","p","e","r","i","o","d">>,
      <<"i","r","r","e","g","u","l","a","r"," ","p","e","r","i","o","d","s">>,
      <<"a","c","n","e">>,
      <<"h","i","r","s","u","t","i","s","m">>,
      <<"e","x","c","e","s","s"," ","h","a","i","r">>,
      <<"w","e","i","g","h","t"," ","g","a","i","n">>>>>>,
  <<<<"h","y","p","o","t","h","y","r","o","i","d","i","s","m">>,
    <<<<"w","e","i","g","h","t"," ","g","a","i","n">>,
      <<"c","o","l","d"," ","i","n","t","o","l","e","r","a","n","c","e">>,
      <<"f","a","t","i","g","u","e">>,
      <<"c","o","n","s","t","i","p","a","t","i","o","n">>,
      <<"d","r","y"," ","s","k","i","n">>>>>>,
  <<<<"a","n","e","m","i","a">>,
    <<<<"f","a","t","i","g","u","e">>,
      <<"p","a","l","e">>,
      <<"s","h","o","r","t","n","e","s","s"," ","o","f"," ","b","r","e","a","t","h">>,
      <<"d","i","z","z","i","n","e","s","s">>>>>>,
  <<<<"g","a","s","t","r","i","t","i","s">>,
    <<<<"h","e","a","r","t","b","u","r","n">>,
      <<"s","t","o","m","a","c","h"," ","p","a","i","n">>,
      <<"u","p","p","e","r"," ","a","b","d","o","m","i","n","a","l"," ","p","a","i","n">>,
      <<"i","n","d","i","g","e","s","t","i","o","n">>,
      <<"b","l","o","a","t","i","n","g">>>>>> >>

RespiratoryWords == <<<<"c","o","u","g","h">>,
  <<"s","o","r","e"," ","t","h","r","o","a","t">>,
  <<"r","u","n","n","y">>,
  <<"s","n","e","e","z","i","n","g">>,
  <<"n","a","s","a","l">>>>

GiWords == <<<<"d","i","a","r","r","h","e","a">>,
  <<"v","o","m","i","t">>,
  <<"n","a","u","s","e","a">>,
  <<"s","t","o","m","a","c","h">>>>

HeadacheWords == <<<<"h","e","a","d","a","c","h","e">>,
  <<"m","i","g","r","a","i","n","e">>>>

s_common_cold == <<"c","o","m","m","o","n"," ","c","o","l","d">>

s_gastroenteritis == <<"g","a","s","t","r","o","e","n","t","e","r","i","t","i","s">>

s_migraine == <<"m","i","g","r","a","i","n","e">>

(***************************************************************************)
(* Arithmetic on probabilities, in units of 1/One                          *)
(***************************************************************************)
Min(a, b) == IF a <= b THEN a ELSE b

Max(a, b) == IF a >= b THEN a ELSE b

RECURSIVE SumSeq(_)
SumSeq(ns) == IF ns = << >> THEN 0 ELSE ns[1] + SumSeq(Tail(ns))

\* the integer nearest to a / b (b > 0).  The code rounds the binary float
\* a / b, so a quotient that is an exact tie in decimal goes up or down with
\* the float's error: up is the way it goes.
RoundNearest(a, b, up) ==
  LET q == a \div b
      r == a - q * b
  IN  IF 2 * r < b THEN q
      ELSE IF 2 * r > b THEN q + 1
      ELSE IF up THEN q + 1 ELSE q

\* variant: round(num / den, 2)
Round2(num, den, up) ==
  IF den > 0 THEN (One \div 100) * RoundNearest(100 * num, den, up)
  ELSE (One \div 100) * RoundNearest(0 - 100 * num, 0 - den, up)

\* round(num / den, 3) for den # 0
Round3(num, den, up) ==
  IF den > 0 THEN (One \div 1000) * RoundNearest(1000 * num, den, up)
  ELSE (One \div 1000) * RoundNearest(0 - 1000 * num, 0 - den, up)

\* num / den is an exact tie between two values of three decimals
IsTie(num, den) ==
  LET b == IF den > 0 THEN den ELSE 0 - den
      a == IF den > 0 THEN 1000 * num ELSE 0 - 1000 * num
  IN  den # 0 /\ 2 * (a - (a \div b) * b) = b

\* float(v): [ok, n]; ok is FALSE for the TypeError or ValueError
float_of_number(s, r) ==
  IF r.ok /\ r.pos = Len(s) + 1 THEN [ok |-> TRUE, n |-> r.val.n]
  ELSE [ok |-> FALSE, n |-> 0]

\* float of a str: the stripped text s must be one number
float_of_text(s) == float_of_number(s, IF s = << >> THEN Fail ELSE ParseNumber(s, 1))

py_float(v) ==
  CASE v.t = "num"  -> [ok |-> TRUE, n |-> v.n]
    [] v.t = "bool" -> [ok |-> TRUE, n |-> IF v.b THEN One ELSE 0]
    [] v.t = "str"  -> float_of_text(str_strip(v.s))
    [] OTHER -> [ok |-> FALSE, n |-> 0]

\* get_prob (heuristic_inject) and norm_prob (results rendering): the same
\* body; an item that is no dict raises inside the try as well
unit_prob(f) ==
  IF ~f.ok THEN 0
  ELSE IF f.n > One THEN Min(One, f.n \div 100)
  ELSE f.n

get_prob(item) ==
  unit_prob(IF item.t = "obj" THEN py_float(dict_get(item, k_probability, JNum(0)))
            ELSE [ok |-> FALSE, n |-> 0])

norm_prob(p) == get_prob(p)

\* sorted(items, key=..., reverse=True) with keys[i] the key of items[i]:
\* stable, so equal keys keep their order
sorted_desc(items, keys) ==
  LET Rank(i) == Cardinality({j \in 1..Len(items) : keys[j] > keys[i]})
                 + Cardinality({j \in 1..(i - 1) : keys[j] = keys[i]}) + 1
  IN  [r \in 1..Len(items) |-> items[CHOOSE i \in 1..Len(items) : Rank(i) = r]]

Top3(items) == SubSeq(items, 1, Min(3, Len(items)))

(***************************************************************************)
(* heuristic_inject                                                        *)
(***************************************************************************)
MIN_TOP_THRESH == 30000

\* lines 276-284: the first keyword of a table row that occurs in the text,
\* as the loop with its break finds it; 0 when none occurs
RECURSIVE first_keyword(_, _, _)
first_keyword(text, keywords, k) ==
  IF k > Len(keywords) THEN 0
  ELSE IF str_in(keywords[k], text) THEN k
  ELSE first_keyword(text, keywords, k + 1)

\* lines 278-283: the score that keyword k of the row gives, 0 for k = 0
keyword_score(text, keywords, k) ==
  IF k = 0 THEN 0 ELSE 25000 + Min(35000, 5000 * str_count(text, keywords[k]))

\* lines 275-284: the score of one table row, 0 when no keyword of it occurs
\* in the text
heuristic_score(text, keywords) == keyword_score(text, keywords, first_keyword(text, keywords, 1))

AnyIn(words, text) == \E i \in 1..Len(words) : str_in(words[i], text)

\* lines 273-293: added, as <<condition, score>> pairs in insertion order
RECURSIVE AddedFrom(_, _)
AddedFrom(text, i) ==
  IF i > Len(COMMON_HEURISTIC_MAP) THEN << >>
  ELSE LET sc == heuristic_score(text, COMMON_HEURISTIC_MAP[i][2])
       IN  (IF sc > 0 THEN <<<<COMMON_HEURISTIC_MAP[i][1], sc>>>> ELSE << >>)
           \o AddedFrom(text, i + 1)

\* variant: the table rows alone, without the category words of lines 287-293
heuristic_added_table_only(text) == AddedFrom(text, 1)

heuristic_added(text) ==
  LET added == AddedFrom(text, 1)
  IN  IF added # << >> THEN added
      ELSE IF AnyIn(RespiratoryWords, text) THEN <<<<s_common_cold, 30000>>>>
      ELSE IF AnyIn(GiWords, text) THEN <<<<s_gastroenteritis, 30000>>>>
      ELSE IF AnyIn(HeadacheWords, text) THEN <<<<s_migraine, 25000>>>>
      ELSE << >>

\* (p.get("disease") or "Unknown").strip()
disease_name(p) == str_strip(py_or(dict_get(p, k_disease, PyNone), JStr(s_Unknown)).s)

\* lines 296-299: merged after the loop over ps: a later candidate of the
\* same lower-cased name overwrites the probability of an earlier one
RECURSIVE merged_model(_, _)
merged_model(ps, n) ==
  IF n = 0 THEN << >>
  ELSE dict_set(merged_model(ps, n - 1),
                str_lower(disease_name(ps[n])), get_prob(ps[n]))

MergedGet(kv, k) == dict_get([t |-> "obj", kv |-> kv], k, 0)

\* lines 301-304: the heuristic scores merged in
RECURSIVE merged_all(_, _, _)
merged_all(ps, added, n) ==
  IF n = 0 THEN merged_model(ps, Len(ps))
  ELSE LET m     == merged_all(ps, added, n - 1)
           lname == str_lower(added[n][1])
       IN  dict_set(m, lname, Max(MergedGet(m, lname), added[n][2]))

Prediction(disease, probability, description, consult, precautions, links) ==
  JObj(<< <<k_disease, disease>>, <<k_probability, probability>>,
          <<k_description, description>>, <<k_consult, consult>>,
          <<k_precautions, precautions>>, <<k_links, links>> >>)

\* line 309
heuristic_item(name, pv) ==
  Prediction(JStr(str_title(name)), JNum(pv), JStr(<< >>), JStr(<< >>), JList(<< >>), JList(<< >>))

\* i["probability"] = ...
set_probability(item, pv) == JObj(dict_set(item.kv, k_probability, JNum(pv)))

item_probability(item) == dict_get(item, k_probability, JNum(0)).n

\* variant: the items as they are, never divided by their total
normalize_items_skipped(items, ties) == items

items_total(items) == SumSeq([i \in 1..Len(items) |-> item_probability(items[i])])

\* lines 315-319; ties is the set of positions whose tie rounds up
normalize_items(items, ties) ==
  LET total == items_total(items)
  IN  IF total > 0
      THEN [i \in 1..Len(items) |->
              set_probability(items[i],
                              Round3(item_probability(items[i]), total, i \in ties))]
      ELSE items

\* lines 323-332
final_item(it) ==
  Prediction(dict_get(it, k_disease, JStr(s_Unknown)),
             dict_get(it, k_probability, JNum(0)),
             py_or(dict_get(it, k_description, PyNone), JStr(<< >>)),
             py_or(dict_get(it, k_consult, PyNone), JStr(<< >>)),
             py_or(dict_get(it, k_precautions, PyNone), JList(<< >>)),
             py_or(dict_get(it, k_links, PyNone), JList(<< >>)))

TopProb(ps) ==
  IF ps = << >> THEN 0
  ELSE CHOOSE m \in {get_prob(ps[i]) : i \in 1..Len(ps)} :
         \A i \in 1..Len(ps) : get_prob(ps[i]) <= m

\* lines 296-304: merged
merged_of(ps, added) == merged_all(ps, added, Len(added))

\* lines 306-313: items
items_of(ps, merged) ==
  IF merged = << >> /\ ps # << >> THEN ps
  ELSE [i \in 1..Len(merged) |-> heuristic_item(merged[i][1], merged[i][2])]

\* lines 267-313: items before the normalisation
inject_items(common_text, ps) ==
  items_of(ps, merged_of(ps, heuristic_added(str_lower(common_text))))

\* lines 315-332: the normalisation, the sort and the cut to three
inject_finish(items, ties) ==
  LET normed == normalize_items(items, ties)
      items_sorted == sorted_desc(normed,
                        [i \in 1..Len(normed) |-> item_probability(normed[i])])
  IN  [i \in 1..Min(3, Len(items_sorted)) |-> final_item(items_sorted[i])]

\* the positions at which line 319 rounds an exact tie
inject_ties(items) ==
  LET total == items_total(items)
  IN  IF total > 0
      THEN {i \in 1..Len(items) : IsTie(item_probability(items[i]), total)}
      ELSE {}

\* lines 249-333: the lists the call can return, one for each way in which
\* the exact ties of its roundings fall
inject_outcomes(items) == {inject_finish(items, ties) : ties \in SUBSET inject_ties(items)}

heuristic_inject(common_text, ps, min_top_thresh) ==
  IF TopProb(ps) >= min_top_thresh
  THEN {sorted_desc(ps, [i \in 1..Len(ps) |-> get_prob(ps[i])])}
  ELSE inject_outcomes(inject_items(common_text, ps))

(***************************************************************************)
(* Results rendering of the predictor, lines 416-456: preds_final          *)
(***************************************************************************)
\* lines 433-438 and 555-561 without the strip of the free text
combined_text_of(checklist, free_text) ==
  (IF checklist # << >>
   THEN ChecklistPrefix \o str_join(ChecklistSep, checklist) \o ChecklistEnd ELSE << >>)
  \o (IF free_text # << >> THEN FreeTextPrefix \o free_text ELSE << >>)

\* lines 446-456
rescale_item(p, total, up) ==
  Prediction(dict_get(p, k_disease, JStr(s_Unknown)),
             JNum(Round3(norm_prob(p), total, up)),
             dict_get(p, k_description, JStr(<< >>)),
             dict_get(p, k_consult, JStr(<< >>)),
             py_or(dict_get(p, k_precautions, PyNone), JList(<< >>)),
             py_or(dict_get(p, k_links, PyNone), JList(<< >>)))

\* line 445
or_one(sum) == IF sum = 0 THEN One ELSE sum

rescale_total(top) == or_one(SumSeq([i \in 1..Len(top) |-> norm_prob(top[i])]))

\* lines 444-456: the lists the rescaling can build, one for each way in
\* which the exact ties of its roundings fall
rescale_outcomes(top, total) ==
  {[i \in 1..Len(top) |-> rescale_item(top[i], total, i \in ties)] :
     ties \in SUBSET {i \in 1..Len(top) : IsTie(norm_prob(top[i]), total)}}

rescale_top3(preds_sorted) == rescale_outcomes(Top3(preds_sorted), rescale_total(Top3(preds_sorted)))

top_conf_of(preds_sorted) == IF preds_sorted = << >> THEN 0 ELSE norm_prob(preds_sorted[1])

preds_sorted_of(ps) == sorted_desc(ps, [i \in 1..Len(ps) |-> norm_prob(ps[i])])

\* lines 429-456: the values preds_final can take
normalize_sorted(preds_sorted, ctext) ==
  IF top_conf_of(preds_sorted) < MIN_TOP_THRESH
  THEN heuristic_inject(str_lower(ctext), preds_sorted, MIN_TOP_THRESH)
  ELSE rescale_top3(preds_sorted)

normalize_predictions(ps, ctext) == normalize_sorted(preds_sorted_of(ps), ctext)

\* the whole percents p for which the float product (p / 100) * 100 falls
\* just below p (0.29 * 100 = 28.999999999999996), among the probabilities
\* of 3 decimals
ShortProducts == {29000, 57000, 58000}

\* int(x) of pval * 100, cut towards zero, for pval >= 0
percent_cut(pval) == (pval \div 1000) - (IF pval \in ShortProducts THEN 1 ELSE 0)

\* lines 468-474: fill_pct of a displayed probability
fill_pct(prob) ==
  IF unit_prob(py_float(prob)) >= 0
  THEN percent_cut(unit_prob(py_float(prob)))
  ELSE 0 - percent_cut(0 - unit_prob(py_float(prob)))

(***************************************************************************)
(* Inputs of the normalizer: candidates as the model's JSON gives them,    *)
(* and symptom texts as lines 433-438 build them                           *)
(***************************************************************************)
cand_pcos ==
    JObj(<< <<k_disease, JStr(<<"P","C","O","S">>)>>,
         <<k_probability, JNum(70000)>>,
         <<k_description, JStr(<<"H","o","r","m","o","n","a","l"," ","d","i","s","o","r","d","e","r">>)>>,
         <<k_consult, JStr(<<"G","y","n","e","c","o","l","o","g","i","s","t">>)>>,
         <<k_precautions, JList(<<JStr(<<"E","x","e","r","c","i","s","e">>)>>)>>,
         <<k_links, JList(<<JStr(<<"h","t","t","p","s",":","/","/","x",".","o","r","g","/","p","c","o","s">>)>>)>> >>)

cand_hypothyroidism ==
    JObj(<< <<k_disease, JStr(<<"H","y","p","o","t","h","y","r","o","i","d","i","s","m">>)>>,
         <<k_probability, JNum(15000)>>,
         <<k_description, JStr(<<"U","n","d","e","r","a","c","t","i","v","e"," ","t","h","y","r","o","i","d">>)>>,
         <<k_links, PyNone>> >>)

cand_anemia ==
    JObj(<< <<k_disease, JStr(<<"A","n","e","m","i","a">>)>>,
         <<k_probability, JNum(40000)>>,
         <<k_description, JStr(<<"L","o","w"," ","h","e","m","o","g","l","o","b","i","n">>)>>,
         <<k_consult, JStr(<<"P","h","y","s","i","c","i","a","n">>)>>,
         <<k_precautions, JList(<<>>)>>,
         <<k_links, JList(<<>>)>> >>)

cand_rare ==
    JObj(<< <<k_disease, JStr(<<"R","a","r","e"," ","D","i","s","e","a","s","e">>)>>,
         <<k_probability, JNum(10000)>>,
         <<k_description, JStr(<<"U","n","c","o","m","m","o","n">>)>> >>)

cand_gout ==
    JObj(<< <<k_disease, JStr(<<"g","o","u","t">>)>>,
         <<k_probability, JNum(10000)>>,
         <<k_consult, JStr(<<"R","h","e","u","m","a","t","o","l","o","g","i","s","t">>)>> >>)

cand_gout_again ==
    JObj(<< <<k_disease, JStr(<<"G","O","U","T"," ">>)>>,
         <<k_probability, JNum(20000)>>,
         <<k_description, JStr(<<"U","r","i","c"," ","a","c","i","d">>)>> >>)

cand_negative ==
    JObj(<< <<k_disease, JStr(<<"L","u","p","u","s">>)>>,
         <<k_probability, JNum(-40000)>>,
         <<k_description, JStr(<<"A","u","t","o","i","m","m","u","n","e">>)>> >>)

cand_percent ==
    JObj(<< <<k_disease, JStr(<<"F","l","u">>)>>,
         <<k_probability, JNum(4500000)>>,
         <<k_description, JStr(<<"V","i","r","a","l"," ","i","n","f","e","c","t","i","o","n">>)>> >>)

cand_unnamed ==
    JObj(<< <<k_disease, PyNone>>,
         <<k_probability, JStr(<<"h","i","g","h">>)>> >>)

SampleCandidates ==
  {cand_pcos,
   cand_hypothyroidism,
   cand_anemia,
   cand_rare,
   cand_gout,
   cand_gout_again,
   cand_negative,
   cand_percent,
   cand_unnamed}

text_none == <<>>

text_back_pain == <<"C","h","e","c","k","l","i","s","t",":"," ","B","a","c","k"," ","p","a","i","n","."," ">>

text_fatigue == <<"C","h","e","c","k","l","i","s","t",":"," ","F","a","t","i","g","u","e","."," ">>

text_cough == <<"F","r","e","e"," ","t","e","x","t",":"," ","c","o","u","g","h">>

text_sneezing == <<"F","r","e","e"," ","t","e","x","t",":"," ","R","u","n","n","y"," ","n","o","s","e",","," ","s","n","e","e","z","i","n","g",","," ","s","n","e","e","z","i","n","g">>

SampleTexts == {text_none, text_back_pain, text_fatigue, text_cough, text_sneezing}

(***************************************************************************)
(* The values every specification gives to the parts it does not run       *)
(***************************************************************************)
NoRun == [op |-> "none"]

NothingShown == [kind |-> "nothing"]

NormIdle ==
  /\ preds = << >> /\ combined_text = << >>
  /\ preds_final = << >> /\ preds_again = << >>
  /\ norm_pc = "idle"

ParseIdle ==
  /\ raw_text = PyNone /\ parsed_app = PyNone /\ parsed_pred = PyNone
  /\ parse_pc = "idle"
  /\ wrap_input = [fence |-> "idle"] /\ plain = [done |-> FALSE]

\* lines 338-345 of symptom_predictor.py and 267-270 of app.py
SessionInit ==
  /\ selected_symptoms = << >> /\ custom_symptoms = << >>
  /\ symptom_free_text_input = << >>
  /\ predictions_data = PyNone /\ predictions_raw = PyNone
  /\ user_match = {}
  /\ prescription_text = << >> /\ uploaded_file = FALSE
  /\ analysis_data = PyNone /\ analysis_raw = PyNone

UiIdle ==
  /\ app = "none" /\ client = FALSE /\ requests = 0 /\ last = NoRun
  /\ SessionInit
  /\ shown = NothingShown

(***************************************************************************)
(* SpecNorm: the results rendering of the predictor computes preds_final   *)
(* from a candidate list and a symptom text, and is then run once more on  *)
(* its own output                                                          *)
(***************************************************************************)
MaxPreds == 3

\* candidate lists of up to MaxPreds different candidates
PredLists ==
  UNION {{s \in [1..n -> SampleCandidates] : \A i, j \in 1..n : i # j => s[i] # s[j]}
         : n \in 0..MaxPreds}

InitNorm ==
  /\ preds \in PredLists
  /\ combined_text \in SampleTexts
  /\ preds_final = << >> /\ preds_again = << >>
  /\ norm_pc = "input"
  /\ ParseIdle /\ UiIdle

\* lines 416-456: preds_final of one rendering
Normalize ==
  /\ norm_pc = "input"
  /\ preds_final' \in normalize_predictions(preds, combined_text)
  /\ norm_pc' = "normalized"
  /\ UNCHANGED <<preds, combined_text, preds_again, parseVars, uiVars>>

\* the same lines with data["predictions"] = preds_final
Renormalize ==
  /\ norm_pc = "normalized"
  /\ preds_again' \in normalize_predictions(preds_final, combined_text)
  /\ norm_pc' = "renormalized"
  /\ UNCHANGED <<preds, combined_text, preds_final, parseVars, uiVars>>

NextNorm == Normalize \/ Renormalize

SpecNorm == InitNorm /\ [][NextNorm]_vars

(***************************************************************************)
(* Properties of the normalizer (SpecNorm)                                 *)
(***************************************************************************)
Abs(x) == IF x < 0 THEN 0 - x ELSE x

\* n values rounded to 3 decimals are together off by at most n * 0.0005
RoundingSlack(n) == n * (One \div 2000)

Normalized == norm_pc \in {"normalized", "renormalized"}

LowConfidence == TopProb(preds) < MIN_TOP_THRESH

TopConfident == TopProb(preds) >= MIN_TOP_THRESH

\* the lower-cased text holds a keyword of the table or a category word
MentionsKeyword(text) ==
  LET t == str_lower(text)
  IN  \/ \E r \in 1..Len(COMMON_HEURISTIC_MAP) : AnyIn(COMMON_HEURISTIC_MAP[r][2], t)
      \/ AnyIn(RespiratoryWords, t) \/ AnyIn(GiWords, t) \/ AnyIn(HeadacheWords, t)

\* the merged candidates of the fallback, before normalisation and truncation
MergedItems == inject_items(str_lower(combined_text), preds_sorted_of(preds))

AllInUnit(items) == \A i \in 1..Len(items) : item_probability(items[i]) \in 0..One

\* C1 as stated: whenever every model candidate is below 0.30 (an empty or
\* unparseable response gives no candidate), the fallback list has between
\* 1 and 3 entries.
C1_Original ==
  (Normalized /\ LowConfidence) => Len(preds_final) \in 1..3

\* C1 amended: in the low-confidence case the fallback list has at most 3
\* entries, and it is empty exactly when the model gave no candidate and the
\* text holds neither a table keyword nor a category word.
C1_FallbackBounded ==
  (Normalized /\ LowConfidence) =>
     /\ Len(preds_final) <= 3
     /\ (preds_final = << >>) <=> (preds = << >> /\ ~MentionsKeyword(combined_text))

\* C1 witness: no model candidate, a text with a category word only, and the
\* fallback has produced its one heuristic entry
C1_Witness ==
  /\ norm_pc = "normalized" /\ preds = << >> /\ combined_text = text_cough
  /\ Len(preds_final) = 1

DetailsKept(out, p) ==
  /\ dict_get(out, k_disease, PyNone) = dict_get(p, k_disease, JStr(s_Unknown))
  /\ dict_get(out, k_description, PyNone) = dict_get(p, k_description, JStr(<< >>))
  /\ dict_get(out, k_consult, PyNone) = dict_get(p, k_consult, JStr(<< >>))
  /\ dict_get(out, k_precautions, PyNone)
       = py_or(dict_get(p, k_precautions, PyNone), JList(<< >>))
  /\ dict_get(out, k_links, PyNone) = py_or(dict_get(p, k_links, PyNone), JList(<< >>))

\* v is num / den rounded to 3 decimals (a tie may go either way)
IsRoundedShare(v, num, den) ==
  den # 0 /\ v \in {Round3(num, den, TRUE), Round3(num, den, FALSE)}

\* C3 as stated: when the top canonical probability is at least 0.30 the
\* output has min(3, n) entries, in descending order of canonical
\* probability, each the candidate's canonical probability divided by the sum
\* of the top-3 canonical probabilities and rounded to 3 decimals, so that
\* they sum to 1 within rounding, with the candidate's details kept.
C3_Original ==
  (Normalized /\ TopConfident) =>
     LET top == Top3(preds_sorted_of(preds))
         den == SumSeq([i \in 1..Len(top) |-> get_prob(top[i])])
     IN  /\ Len(preds_final) = Min(3, Len(preds))
         /\ \A i \in 1..Len(preds) :
              Cardinality({j \in 1..Len(preds) : get_prob(preds[j]) > get_prob(preds[i])}) >= 3
              \/ \E k \in 1..Len(top) : top[k] = preds[i]
         /\ \A i \in 1..(Len(top) - 1) : get_prob(top[i]) >= get_prob(top[i + 1])
         /\ \A i \in 1..Len(preds_final) :
              /\ IsRoundedShare(item_probability(preds_final[i]), get_prob(top[i]), den)
              /\ DetailsKept(preds_final[i], top[i])
         /\ Abs(items_total(preds_final) - One) <= RoundingSlack(Len(preds_final))

\* the example of C3: 0.70 and 0.15 become 0.824 and 0.176, in that order
C3_Example ==
  (Normalized /\ preds = <<cand_hypothyroidism, cand_pcos>>) =>
     /\ Len(preds_final) = 2
     /\ DetailsKept(preds_final[1], cand_pcos) /\ item_probability(preds_final[1]) = 82400
     /\ DetailsKept(preds_final[2], cand_hypothyroidism)
     /\ item_probability(preds_final[2]) = 17600

\* C4 as stated: after normalisation on either branch the list has at most 3
\* entries and its probabilities sum to at most 1 (each entry may carry the
\* 0.0005 of its rounding).
C4_Original ==
  Normalized =>
     /\ Len(preds_final) <= 3
     /\ items_total(preds_final) <= One + RoundingSlack(Len(preds_final))

C6_Original ==
  Normalized =>
     \A i \in 1..Len(preds) :
        get_prob(preds[i]) \in 0..One /\ norm_prob(preds[i]) \in 0..One

\* the keywords of a table row that occur in the text
MatchedKeywords(text, keywords) == {k \in 1..Len(keywords) : str_in(keywords[k], text)}

\* the largest of 0.25 + min(0.35, 0.05 x occurrences) over the matched
\* keywords of a row, 0 when none is matched
MaxKeywordScore(text, keywords) ==
  IF MatchedKeywords(text, keywords) = {} THEN 0
  ELSE CHOOSE m \in {keyword_score(text, keywords, k) : k \in MatchedKeywords(text, keywords)} :
         \A k \in MatchedKeywords(text, keywords) : keyword_score(text, keywords, k) <= m

\* the score that the loop over the table has given to a condition, 0 when
\* it has given none
TableScore(text, condition) == MergedGet(AddedFrom(text, 1), condition)

\* C17 as stated: in the fallback, the score that the keyword table gives to
\* a condition is the maximum, over the condition's keywords that occur in
\* the lower-cased text, of 0.25 + min(0.35, 0.05 x occurrences of the
\* keyword); a condition without a matching keyword gets no score.
C17_Original ==
  (Normalized /\ LowConfidence) =>
     \A r \in 1..Len(COMMON_HEURISTIC_MAP) :
        TableScore(str_lower(combined_text), COMMON_HEURISTIC_MAP[r][1])
          = MaxKeywordScore(str_lower(combined_text), COMMON_HEURISTIC_MAP[r][2])

\* merged of lines 296-304 in the fallback of the rendering, and added
AddedNow == heuristic_added(str_lower(combined_text))

MergedNow == merged_of(preds_sorted_of(preds), AddedNow)

\* the model candidates that carry the name, letter case ignored
CarriedBy(ps, lname) == {i \in 1..Len(ps) : str_lower(disease_name(ps[i])) = lname}

SetMax(S) == CHOOSE m \in S : \A x \in S : x <= m

\* the largest of the canonical probabilities of the candidates that carry
\* the name and of the heuristic score of the name
MaxOfModelAndHeuristic(ps, added, lname) ==
  SetMax({get_prob(ps[i]) : i \in CarriedBy(ps, lname)}
         \cup {added[a][2] : a \in {b \in 1..Len(added) : str_lower(added[b][1]) = lname}})

\* C18 as stated: the fallback merge is keyed by the lower-cased condition
\* name, and the merged probability of a name is the maximum of the
\* canonical probabilities of all model candidates carrying that name and of
\* the heuristic score of that name.
C18_Original ==
  (Normalized /\ LowConfidence) =>
     /\ \A i, j \in 1..Len(MergedNow) :
          str_lower(MergedNow[i][1]) = str_lower(MergedNow[j][1]) => i = j
     /\ \A i \in 1..Len(MergedNow) :
          MergedNow[i][2] = MaxOfModelAndHeuristic(preds, AddedNow, MergedNow[i][1])

\* an entry of the fallback output carries the description, consult,
\* precautions and links of the model candidate p, an absent or empty field
\* read as its placeholder
FallbackDetailsKept(out, p) ==
  /\ dict_get(out, k_description, PyNone)
       = py_or(dict_get(p, k_description, PyNone), JStr(<< >>))
  /\ dict_get(out, k_consult, PyNone) = py_or(dict_get(p, k_consult, PyNone), JStr(<< >>))
  /\ dict_get(out, k_precautions, PyNone)
       = py_or(dict_get(p, k_precautions, PyNone), JList(<< >>))
  /\ dict_get(out, k_links, PyNone) = py_or(dict_get(p, k_links, PyNone), JList(<< >>))

\* C19 as stated: in the fallback branch an output entry whose condition
\* was reported by the model carries that candidate's description, consult,
\* precautions and links; only entries that the heuristic alone produced and
\* fields that the model left out are empty.
C19_Original ==
  (Normalized /\ LowConfidence) =>
     \A i \in 1..Len(preds_final) :
        CarriedBy(preds, str_lower(dict_get(preds_final[i], k_disease, PyNone).s)) # {} =>
          \E c \in CarriedBy(preds, str_lower(dict_get(preds_final[i], k_disease, PyNone).s)) :
             FallbackDetailsKept(preds_final[i], preds[c])

\* C20 as stated: the percent displayed for an entry is its stored
\* probability times 100 rounded to the nearest integer (a tie may go
\* either way).
C20_Original ==
  Normalized =>
     \A i \in 1..Len(preds_final) :
        Abs(1000 * fill_pct(dict_get(preds_final[i], k_probability, JNum(0)))
            - item_probability(preds_final[i])) <= 500

(***************************************************************************)
(* SpecParse: both parse_gemini_json functions applied to a raw text that  *)
(* is None or is put together from pieces of model output                  *)
(***************************************************************************)
MaxPieces == 4

piece_member == <<"\"","a","\"",":"," ","1">>

piece_quoted == <<"'","a","'",":"," ","1">>

TextPieces ==
  {FenceJson, Fence, <<"{">>, <<"}">>, piece_member, piece_quoted, <<",">>, <<"1">>}

RawTexts ==
  {PyNone} \cup {JStr(Flatten(p)) : p \in UNION {[1..n -> TextPieces] : n \in 0..MaxPieces}}

InitParse ==
  /\ raw_text \in RawTexts
  /\ parsed_app = PyNone /\ parsed_pred = PyNone
  /\ parse_pc = "input"
  /\ wrap_input = [fence |-> "idle"] /\ plain = [done |-> FALSE]
  /\ NormIdle /\ UiIdle

\* parse_gemini_json of app.py
ParseApp ==
  /\ parse_pc = "input"
  /\ parsed_app' = parse_gemini_json_app(raw_text)
  /\ parse_pc' = "app_parsed"
  /\ UNCHANGED <<raw_text, parsed_pred, wrap_input, plain, normVars, uiVars>>

\* parse_gemini_json of symptom_predictor.py
ParsePredictor ==
  /\ parse_pc = "app_parsed"
  /\ parsed_pred' = parse_gemini_json(raw_text)
  /\ parse_pc' = "parsed"
  /\ UNCHANGED <<raw_text, parsed_app, wrap_input, plain, normVars, uiVars>>

NextParse == ParseApp \/ ParsePredictor

SpecParse == InitParse /\ [][NextParse]_vars

\* the text is None or empty, or holds no "{" or no "}" once the fences are
\* removed
NoBraces(raw) ==
  \/ ~Truthy(raw)
  \/ ~str_in(<<"{">>, fence_removed(raw.s))
  \/ ~str_in(<<"}">>, fence_removed(raw.s))

\* C10: for a text that is None or empty, or that holds no "{" or no "}"
\* after fence removal, both parse_gemini_json functions return None; the
\* ValueError of index and rindex is caught inside them.
C10_NoBracesNoData ==
  /\ (parse_pc \in {"app_parsed", "parsed"} /\ NoBraces(raw_text)) => parsed_app = PyNone
  /\ (parse_pc = "parsed" /\ NoBraces(raw_text)) => parsed_pred = PyNone

\* C10 witness: a fenced text with an opening brace and no closing one has
\* gone through both functions
C10_Witness ==
  /\ parse_pc = "parsed" /\ Truthy(raw_text)
  /\ str_in(FenceJson, raw_text.s)
  /\ str_in(<<"{">>, raw_text.s) /\ ~str_in(<<"}">>, raw_text.s)
  /\ parsed_app = PyNone /\ parsed_pred = PyNone

\* some text is recovered as an object by both functions
ParseSucceeds ==
  parse_pc = "parsed" /\ parsed_app.t = "obj" /\ parsed_pred.t = "obj"

\* the strict parse of the span of raw fails (raw holds a span)
StrictParseFails(raw) ==
  /\ Truthy(raw) /\ json_span(raw.s) # NoSpan
  /\ ~json_loads(json_span(raw.s)).ok

\* what the second attempt gives: the span with every ' replaced by ",
\* parsed, or None
SecondAttempt(raw) ==
  loads_or_none(json_loads(str_replace(json_span(raw.s), <<"'">>, <<"\"">>)))

\* C12 as stated: in both scripts, when the strict parse of the span fails,
\* parse_gemini_json parses the span again with every single quote replaced
\* by a double quote and returns that result (None only if it fails too).
C12_Original ==
  (parse_pc = "parsed" /\ StrictParseFails(raw_text)) =>
     /\ parsed_pred = SecondAttempt(raw_text)
     /\ parsed_app = SecondAttempt(raw_text)
(***************************************************************************)
(* SpecWrap: a JSON object text is wrapped in code fences, put between     *)
(* brace-free commentary and given trailing commas; both parse_gemini_json *)
(* functions are applied to the wrapped text and to the object text itself *)
(***************************************************************************)
MaxNotes == 1

\* the place of an object text where a trailing comma may be inserted
CommaPoint == <<"<,>">>

object_number == <<<<"{","\"","a","\"",":","1">>, CommaPoint, <<"}">>>>

object_list == <<<<"{","\"","a","\"",":"," ","[","1",","," ","2">>, CommaPoint, <<"]">>, CommaPoint, <<"}">>>>

object_nested == <<<<"{","\"","a","\"",":"," ","{","\"","b","\"",":"," ","\"","x","\"">>, CommaPoint, <<"}">>, CommaPoint, <<"}">>>>

object_closers_in_string == <<<<"{","\"","a","\"",":"," ","\"","}",","," ","]","\"">>, CommaPoint, <<" ","}">>>>

object_fence_in_string == <<<<"{","\"","a","\"",":"," ","\"",BQ,BQ,BQ,"x","\"">>, CommaPoint, <<"\n","}">>>>

object_quote_in_string == <<<<"{","\"","a","\"",":"," ","\"","}","{",",","x","\\","\""," ","]","\"">>, CommaPoint, <<"}">>>>

object_empty == <<<<"{","}">>>>

object_empty_list == <<<<"{","\"","a","\"",":"," ","["," ","]">>, CommaPoint, <<"}">>>>

ObjectTexts == {object_number, object_list, object_nested, object_closers_in_string, object_fence_in_string, object_quote_in_string, object_empty, object_empty_list}

note_intro == <<"N","o","t","e",":","\n">>

note_quoted == <<BQ,"[","1",",","]",BQ," ">>

NotePieces == {note_intro, note_quoted}

Notes == {Flatten(p) : p \in UNION {[1..n -> NotePieces] : n \in 0..MaxNotes}}

\* the comma that is inserted: none, a bare one, one followed by whitespace
CommaStyles == {<< >>, <<",">>, <<",", " ", "\n">>}

FenceStyles == {"none", "json", "bare"}

NoWrap == [fence |-> "idle"]

NoPlain == [done |-> FALSE]

WrapInputs ==
  [object : ObjectTexts, comma : CommaStyles, fence : FenceStyles,
   before : Notes, after : Notes]

\* the object text with the comma at every comma point
object_text(object, comma) ==
  Flatten([i \in 1..Len(object) |-> IF object[i] = CommaPoint THEN comma ELSE object[i]])

fence_open(fence) ==
  CASE fence = "json" -> FenceJson \o <<"\n">>
    [] fence = "bare" -> Fence \o <<"\n">>
    [] OTHER -> << >>

fence_close(fence) == IF fence = "none" THEN << >> ELSE <<"\n">> \o Fence

wrapped_text(w) ==
  w.before \o fence_open(w.fence) \o object_text(w.object, w.comma)
           \o fence_close(w.fence) \o w.after

plain_text(w) == object_text(w.object, << >>)

InitWrap ==
  /\ wrap_input \in WrapInputs
  /\ raw_text = JStr(wrapped_text(wrap_input))
  /\ parsed_app = PyNone /\ parsed_pred = PyNone
  /\ plain = NoPlain
  /\ parse_pc = "input"
  /\ NormIdle /\ UiIdle

\* both functions on the object text itself
ParsePlain ==
  /\ parse_pc = "parsed" /\ wrap_input # NoWrap
  /\ plain' = [done |-> TRUE,
               app |-> parse_gemini_json_app(JStr(plain_text(wrap_input))),
               pred |-> parse_gemini_json(JStr(plain_text(wrap_input)))]
  /\ parse_pc' = "compared"
  /\ UNCHANGED <<raw_text, parsed_app, parsed_pred, wrap_input, normVars, uiVars>>

NextWrap == ParseApp \/ ParsePredictor \/ ParsePlain

SpecWrap == InitWrap /\ [][NextWrap]_vars

\* C11: a JSON object text that is wrapped in code fences (tagged or bare),
\* put between brace-free commentary and given a trailing comma before its
\* closing "}" and "]" is recovered, by both parse_gemini_json functions, as
\* the same object as the object text alone.
C11_WrappingKeepsResult ==
  parse_pc = "compared" =>
     /\ parsed_app.t = "obj" /\ parsed_app = plain.app
     /\ parsed_pred.t = "obj" /\ parsed_pred = plain.pred

\* C11 witness: the example of the claim, {"a":1,} in a tagged fence, has
\* given the object {"a": 1}
C11_Witness ==
  /\ parse_pc = "compared"
  /\ wrap_input.object = object_number /\ wrap_input.fence = "json"
  /\ wrap_input.comma = <<",">>
  /\ parsed_app = JObj(<< <<<<"a">>, JNum(One)>> >>)
  /\ parsed_pred = parsed_app


\* the character s[i] lies inside a JSON string: an odd number of quotes
\* that no backslash escapes comes before it
InString(s, i) ==
  Cardinality({j \in 1..(i - 1) : s[j] = "\"" /\ ~IsEscaped(s, 1, j)}) % 2 = 1

\* no string of the text holds a bare fence marker (the tagged one holds
\* the bare one) or a match of the trailing-comma pattern
StringsClean(s) ==
  \A i \in 1..Len(s) : InString(s, i) => ~OccursAt(Fence, s, i) /\ ~CommaMatchAt(s, i)

\* json.loads on the whole text, None where it raises
strict_parse(s) == loads_or_none(json_loads(s))

\* the results of recovery in this state
Recovered ==
  {parsed_app, parsed_pred} \cup (IF plain.done THEN {plain.app, plain.pred} ELSE {})

\* C21 as stated: for every text that is a strictly valid JSON object with
\* nothing around it, both parse_gemini_json functions return exactly what a
\* strict parse of the text returns, and a successful recovery is a mapping.
C21_Original ==
  /\ \A r \in Recovered : r.t \in {"none", "obj"}
  /\ parse_pc = "compared" /\ strict_parse(plain_text(wrap_input)).t = "obj" =>
        /\ plain.app = strict_parse(plain_text(wrap_input))
        /\ plain.pred = strict_parse(plain_text(wrap_input))

\* C21, amended: for every text that is a strictly valid JSON object with
\* nothing around it and in which no string holds a code-fence marker or a
\* comma followed by optional whitespace and a closing "}" or "]", both
\* parse_gemini_json functions return exactly what a strict parse of the text
\* returns; and every successful recovery is a mapping, never a list or scalar.
C21_CleanStringsUnaltered ==
  /\ \A r \in Recovered : r.t \in {"none", "obj"}
  /\ /\ parse_pc = "compared"
     /\ strict_parse(plain_text(wrap_input)).t = "obj"
     /\ StringsClean(plain_text(wrap_input))
     => /\ plain.app = strict_parse(plain_text(wrap_input))
        /\ plain.pred = strict_parse(plain_text(wrap_input))

\* C21 witness: an object whose string holds braces, a comma, an escaped
\* quote and a "]", none of them a match, has come back as the strict parse
C21_Witness ==
  /\ parse_pc = "compared"
  /\ wrap_input.object = object_quote_in_string
  /\ StringsClean(plain_text(wrap_input))
  /\ plain.pred = JObj(<< <<<<"a">>, JStr(<<"}","{",",","x","\""," ","]">>)>> >>)
  /\ plain.app = plain.pred
  /\ plain.pred = strict_parse(plain_text(wrap_input))

(***************************************************************************)
(* The Model Gateway: what client.models.generate_content may do, and the  *)
(* two pipeline functions around it                                        *)
(***************************************************************************)
reply_predictions ==
  <<"{","\"","p","r","e","d","i","c","t","i","o","n","s","\"",":"," ","[","{","\"","d","i","s","e","a","s","e","\"",":"," ","\"","P","C","O","S","\"",","," ","\"","p","r","o","b","a","b","i","l","i","t","y","\"",":"," ","0",".","7","}",","," ","{","\"","d","i","s","e","a","s","e","\"",":"," ","\"","A","n","e","m","i","a","\"",","," ","\"","p","r","o","b","a","b","i","l","i","t","y","\"",":"," ","0",".","1","5","}","]","}">>

reply_low_confidence ==
  <<BQ,BQ,BQ,"j","s","o","n","\n","{","\"","p","r","e","d","i","c","t","i","o","n","s","\"",":"," ","[","{","\"","d","i","s","e","a","s","e","\"",":"," ","\"","F","l","u","\"",","," ","\"","p","r","o","b","a","b","i","l","i","t","y","\"",":"," ","0",".","2","}",",","]","}","\n",BQ,BQ,BQ>>

reply_prose ==
  <<"S","o","r","r","y",","," ","I"," ","c","a","n","n","o","t"," ","h","e","l","p",".">>

reply_broken ==
  <<"{","\"","m","e","d","i","c","i","n","e","s","\"",":"," ","[","}">>

reply_prescription ==
  <<"{","\"","m","e","d","i","c","i","n","e","s","\"",":"," ","[","{","\"","n","a","m","e","\"",":"," ","\"","W","a","r","f","a","r","i","n","\"","}","]",","," ","\"","i","n","t","e","r","a","c","t","i","o","n","s","\"",":"," ","[","]","}">>

SampleReplies ==
  {reply_predictions, reply_low_confidence, reply_prose, reply_broken, reply_prescription}

AttributeErrorMessage ==
  <<"'","N","o","n","e","T","y","p","e","'"," ","o","b","j","e","c","t"," ","h","a","s"," ","n","o"," ","a","t","t","r","i","b","u","t","e"," ","'","p","a","r","t","s","'">>

TimeoutMessage == <<"t","i","m","e","d"," ","o","u","t">>

\* generate_content raises
Raises(msg) == [raises |-> TRUE, message |-> msg, text |-> PyNone, candidates |-> << >>]

\* generate_content returns a response with .text and .candidates
Response(text, candidates) ==
  [raises |-> FALSE, message |-> << >>, text |-> text, candidates |-> candidates]

Content(parts) == [t |-> "content", parts |-> parts]

NoResponse == Response(PyNone, << >>)

GatewayOutcomes ==
  {Raises(TimeoutMessage),
   NoResponse,
   Response(JStr(<< >>), <<[content |-> Content(<<PyNone>>)]>>),
   Response(PyNone, <<[content |-> PyNone]>>),
   Response(PyNone, <<[content |-> Content(<<JStr(reply_prose), PyNone>>)]>>)}
  \cup {Response(JStr(r), << >>) : r \in SampleReplies}

\* the response is read inside the try block: raw, or the exception raised
\* by the call or by reading a candidate without content
read_response(resp) ==
  IF resp.raises THEN [raised |-> TRUE, message |-> resp.message, raw |-> << >>]
  ELSE LET raw == py_or(resp.text, JStr(<< >>)).s
       IN  IF raw = << >> /\ resp.candidates # << >>
           THEN IF resp.candidates[1].content.t = "none"
                THEN [raised |-> TRUE, message |-> AttributeErrorMessage, raw |-> << >>]
                ELSE LET parts == resp.candidates[1].content.parts
                     IN  [raised |-> FALSE, message |-> << >>,
                          raw |-> Flatten([i \in 1..Len(parts) |->
                                             py_or(parts[i], JStr(<< >>)).s])]
           ELSE [raised |-> FALSE, message |-> << >>, raw |-> raw]

\* variant: the request goes out whether or not a client was created
call_gemini_for_symptoms_unguarded(symptoms_text, resp) ==
  LET r == read_response(resp)
  IN  IF r.raised
      THEN [data_obj |-> PyNone, raw_text |-> ApiErrorPrefix \o r.message, sent |-> 1]
      ELSE [data_obj |-> parse_gemini_json(JStr(r.raw)),
            raw_text |-> IF r.raw # << >> THEN r.raw ELSE EmptyDiag, sent |-> 1]

\* the pair returned, and sent: the generate_content calls made
call_gemini_for_symptoms(symptoms_text, resp) ==
  IF ~client
  THEN [data_obj |-> PyNone, raw_text |-> NoClientDiag, sent |-> 0]
  ELSE LET r == read_response(resp)
       IN  IF r.raised
           THEN [data_obj |-> PyNone, raw_text |-> ApiErrorPrefix \o r.message, sent |-> 1]
           ELSE [data_obj |-> parse_gemini_json(JStr(r.raw)),
                 raw_text |-> IF r.raw # << >> THEN r.raw ELSE EmptyDiag, sent |-> 1]

\* variant: raw is returned as it is, empty or not
process_prescription_returning_raw(data, is_file, resp) ==
  IF ~client
  THEN [data_obj |-> PyNone, raw_text |-> NoClientDiag, sent |-> 0]
  ELSE LET r == read_response(resp)
       IN  IF r.raised
           THEN [data_obj |-> PyNone, raw_text |-> ApiErrorPrefix \o r.message, sent |-> 1]
           ELSE [data_obj |-> parse_gemini_json_app(JStr(r.raw)), raw_text |-> r.raw,
                 sent |-> 1]

process_prescription_with_gemini(data, is_file, resp) ==
  IF ~client
  THEN [data_obj |-> PyNone, raw_text |-> NoClientDiag, sent |-> 0]
  ELSE LET r == read_response(resp)
       IN  IF r.raised
           THEN [data_obj |-> PyNone, raw_text |-> ApiErrorPrefix \o r.message, sent |-> 1]
           ELSE [data_obj |-> parse_gemini_json_app(JStr(r.raw)),
                 raw_text |-> IF r.raw # << >> THEN r.raw ELSE EmptyDiag, sent |-> 1]

(***************************************************************************)
(* Spec: the Streamlit scripts.  A user action runs the script once: the   *)
(* results column is rendered from the session, the handler of the pressed *)
(* button runs, and st.rerun() renders again from the new session.         *)
(***************************************************************************)
MaxRequests == 2

MaxCustom == 1

symptom_fatigue == <<"F","a","t","i","g","u","e">>

SymptomChoices == {<< >>, <<symptom_fatigue>>}

NewSymptomInputs == {<<" "," ">>, <<"c","o","u","g","h">>}

FreeTexts == {<< >>, <<" ">>, <<"s","n","e","e","z","i","n","g">>}

PrescriptionTexts == {<< >>, <<" "," ">>, <<"W","a","r","f","a","r","i","n"," ","5"," ","m","g">>}

\* line 574: the object stored when the reply gave no predictions
EmptyPredictions == JObj(<< <<k_predictions, JList(<< >>)>> >>)

Shown(kind, raw, items) ==
  [kind |-> kind, raw |-> raw, items |-> items, groups |-> << >>, warning |-> FALSE]

\* what a run of the script did: the handler that ran, whether it found its
\* input blank, the generate_content calls made, the gateway's outcome and
\* the pair the pipeline function returned (<< >> when it was not called)
Ran(op, blank, sent, resp) ==
  [op |-> op, blank |-> blank, sent |-> sent, resp |-> resp, returned |-> << >>]

\* a run of the script in which no analysis button was pressed
NoAnalysis == Ran("none", FALSE, 0, NoResponse)

Called(op, res, resp) ==
  [op |-> op, blank |-> FALSE, sent |-> res.sent,
   resp |-> IF res.sent = 0 THEN NoResponse ELSE resp,
   returned |-> <<res.data_obj, res.raw_text>>]

\* a run of the script that ends with an uncaught exception: Streamlit shows
\* the exception in place of what the script had still to draw
Exception(name) ==
  [kind |-> "exception", raw |-> name, items |-> << >>, groups |-> << >>,
   warning |-> FALSE]

NoError == << >>

StreamlitAPIException ==
  <<"S","t","r","e","a","m","l","i","t","A","P","I","E","x","c","e","p","t","i","o","n">>

\* st.session_state.<key> = value, where <key> is the key of a widget: the
\* library takes the value, or rejects the write with StreamlitAPIException
\* when the run has already created the widget of that key
WidgetKeyWrites == {"accepted", "rejected"}

\* what a for loop or a comprehension over v visits: the items of a list,
\* the characters of a str, the keys of a dict; any other value raises
IsIterable(v) == v.t \in {"list", "str", "obj"}

elements(v) ==
  CASE v.t = "list" -> v.xs
    [] v.t = "str"  -> [i \in 1..Len(v.s) |-> JStr(<<v.s[i]>>)]
    [] v.t = "obj"  -> [i \in 1..Len(v.kv) |-> JStr(v.kv[i][1])]

\* line 298: (p.get("disease") or "Unknown").strip() on a candidate that is
\* no dict, or whose disease is a value other than a text
merge_raises(p) ==
  \/ p.t # "obj"
  \/ /\ Truthy(dict_get(p, k_disease, PyNone))
     /\ dict_get(p, k_disease, PyNone).t # "str"

\* lines 429-456: heuristic_inject reads every candidate (line 298), the
\* rescaling reads the first three (lines 449-456)
candidates_error(preds_sorted) ==
  IF top_conf_of(preds_sorted) < MIN_TOP_THRESH
  THEN IF \E i \in 1..Len(preds_sorted) : merge_raises(preds_sorted[i])
       THEN <<"AttributeError">> ELSE NoError
  ELSE IF \E i \in 1..Len(Top3(preds_sorted)) : preds_sorted[i].t # "obj"
       THEN <<"AttributeError">> ELSE NoError

\* line 429: sorted(preds, ...) on a value that cannot be iterated, then the
\* candidates
predictions_error(predictions) ==
  IF ~IsIterable(predictions) THEN <<"TypeError">>
  ELSE candidates_error(preds_sorted_of(elements(predictions)))

\* lines 506-518 for one displayed item: the loop over precautions, the
\* slice links[:3] (a dict raises TypeError, KeyError from Python 3.12 on),
\* and get_learn_more_links (line 79: disease_name.lower())
item_error(p) ==
  IF /\ Truthy(dict_get(p, k_precautions, PyNone))
     /\ ~IsIterable(dict_get(p, k_precautions, PyNone))
  THEN <<"TypeError">>
  ELSE IF Truthy(dict_get(p, k_links, PyNone))
       THEN IF dict_get(p, k_links, PyNone).t \in {"list", "str"}
            THEN NoError ELSE <<"TypeError">>
  ELSE IF /\ Truthy(dict_get(p, k_disease, JStr(s_Unknown)))
          /\ dict_get(p, k_disease, JStr(s_Unknown)).t # "str"
       THEN <<"AttributeError">>
  ELSE NoError

\* lines 459-525: the loop over preds_final (pfinal) stops at the first item that
\* raises
RECURSIVE display_error(_, _)
display_error(pfinal, idx) ==
  IF idx > Len(pfinal) THEN NoError
  ELSE IF item_error(pfinal[idx]) # NoError THEN item_error(pfinal[idx])
  ELSE display_error(pfinal, idx + 1)

\* lines 458-547: the items, or the message that there are none
shown_predictions(pfinal) ==
  IF pfinal = << >> THEN Shown("no predictions", << >>, << >>)
  ELSE IF display_error(pfinal, 1) # NoError
       THEN Exception(display_error(pfinal, 1))
  ELSE Shown("predictions", << >>, pfinal)

\* lines 416-547: the structured branch
render_predictions(predictions, ctext) ==
  IF predictions_error(predictions) # NoError
  THEN {Exception(predictions_error(predictions))}
  ELSE {shown_predictions(pf) : pf \in normalize_predictions(elements(predictions), ctext)}

\* lines 413-547 of symptom_predictor.py: what the results column can show
render_predictor(data, raw, checklist, free_text) ==
  IF Truthy(data)
  THEN render_predictions(py_or(dict_get(data, k_predictions, JList(<< >>)), JList(<< >>)),
                          combined_text_of(checklist, free_text))
  ELSE IF Truthy(raw) THEN {Shown("raw", raw.s, << >>)}
  ELSE {Shown("prompt", << >>, << >>)}

k_side_effects == <<"s","i","d","e","_","e","f","f","e","c","t","s">>

k_risk_level == <<"r","i","s","k","_","l","e","v","e","l">>

\* lines 349-373 of app.py: m.get on an entry that is no dict, and the loop
\* over side_effects
medicines_error(meds) ==
  IF ~Truthy(meds) THEN NoError
  ELSE IF ~IsIterable(meds) THEN <<"TypeError">>
  ELSE IF \E i \in 1..Len(elements(meds)) : elements(meds)[i].t # "obj"
       THEN <<"AttributeError">>
  ELSE IF \E i \in 1..Len(meds.xs) :
            /\ Truthy(dict_get(meds.xs[i], k_side_effects, PyNone))
            /\ ~IsIterable(dict_get(meds.xs[i], k_side_effects, PyNone))
       THEN <<"TypeError">>
  ELSE NoError

medicine_names(meds) ==
  IF Truthy(meds)
  THEN [i \in 1..Len(meds.xs) |-> dict_get(meds.xs[i], k_name, JStr(s_Unknown))]
  ELSE << >>

\* line 386: i.get("risk_level","").lower() on every entry
interactions_error(interactions) ==
  IF ~Truthy(interactions) THEN NoError
  ELSE IF ~IsIterable(interactions) THEN <<"TypeError">>
  ELSE IF \E i \in 1..Len(elements(interactions)) :
            \/ elements(interactions)[i].t # "obj"
            \/ dict_get(elements(interactions)[i], k_risk_level, JStr(<< >>)).t # "str"
       THEN <<"AttributeError">>
  ELSE NoError

\* line 384
risk_order == <<<<"H","i","g","h">>, <<"M","o","d","e","r","a","t","e">>, <<"L","o","w">>>>

\* line 386: the entries of the level, in the order of the list
risk_group(interactions, level) ==
  Flatten([i \in 1..Len(interactions) |->
             IF str_lower(dict_get(interactions[i], k_risk_level, JStr(<< >>)).s)
                  = str_lower(level)
             THEN <<interactions[i]>> ELSE << >>])

\* lines 393-397: what the card of an interaction shows
interaction_card(inter) ==
  [drug1 |-> dict_get(inter, <<"d","r","u","g","1">>, JStr(s_Unknown)),
   drug2 |-> dict_get(inter, <<"d","r","u","g","2">>, JStr(s_Unknown)),
   effect |-> dict_get(inter, <<"e","f","f","e","c","t">>, JStr(<< >>)),
   mechanism |-> dict_get(inter, <<"m","e","c","h","a","n","i","s","m">>, JStr(<< >>)),
   recommendation |-> dict_get(inter, <<"r","e","c","o","m","m","e","n","d","a","t","i","o","n">>, JStr(<< >>))]

\* lines 390-419: the heading of a group, with its count, and its cards
risk_section(level, group) ==
  [level |-> level, count |-> Len(group),
   cards |-> [i \in 1..Len(group) |-> interaction_card(group[i])]]

\* lines 385-388: one section per level of risk_order, an empty group skipped
risk_sections(interactions) ==
  Flatten([l \in 1..Len(risk_order) |->
             IF risk_group(interactions, risk_order[l]) = << >> THEN << >>
             ELSE <<risk_section(risk_order[l], risk_group(interactions, risk_order[l]))>>])

ShownAnalysis(names, groups) ==
  [kind |-> "analysis", raw |-> << >>, items |-> names, groups |-> groups,
   warning |-> FALSE]

\* lines 346-429 of app.py: the structured branch
render_analysis(meds, interactions) ==
  IF medicines_error(meds) # NoError THEN Exception(medicines_error(meds))
  ELSE IF interactions_error(interactions) # NoError
       THEN Exception(interactions_error(interactions))
  ELSE ShownAnalysis(medicine_names(meds),
                     IF Truthy(interactions) THEN risk_sections(interactions.xs) ELSE << >>)

\* lines 343-444 of app.py: the medicines and the interactions by risk, or
\* the raw text
render_extractor(data, raw) ==
  IF Truthy(data)
  THEN render_analysis(dict_get(data, k_medicines, JList(<< >>)),
                       dict_get(data, k_interactions, JList(<< >>)))
  ELSE IF Truthy(raw) THEN Shown("raw", raw.s, << >>)
  ELSE Shown("prompt", << >>, << >>)

Init ==
  /\ app \in {"extractor", "predictor"}
  /\ client \in BOOLEAN
  /\ requests = 0
  /\ last = NoAnalysis
  /\ SessionInit
  /\ shown = Shown("prompt", << >>, << >>)
  /\ NormIdle /\ ParseIdle

extractorVars == <<prescription_text, uploaded_file, analysis_data, analysis_raw>>

predictorVars == <<selected_symptoms, custom_symptoms, symptom_free_text_input,
                   predictions_data, predictions_raw, user_match>>

\* the script of symptom_predictor.py run to its end on the session given
RerunPredictor(data, raw, selected, custom, free_text) ==
  shown' \in render_predictor(data, raw, selected \o custom, free_text)

\* lines 364-365: the multiselect is changed
PickSymptoms ==
  /\ app = "predictor"
  /\ \E selected \in SymptomChoices \ {selected_symptoms} :
       /\ selected_symptoms' = selected
       /\ RerunPredictor(predictions_data, predictions_raw, selected, custom_symptoms,
                         symptom_free_text_input)
  /\ last' = NoAnalysis
  /\ UNCHANGED <<custom_symptoms, symptom_free_text_input, predictions_data,
                 predictions_raw, user_match, extractorVars, app, client, requests,
                 normVars, parseVars>>

\* lines 367-373: Add symptom.  Line 372 assigns the key of the text input
\* that line 366 created: when the write is rejected the run ends there, the
\* symptom already appended
AddSymptom ==
  /\ app = "predictor" /\ Len(custom_symptoms) < MaxCustom
  /\ \E new_sym \in NewSymptomInputs, write \in WidgetKeyWrites :
       IF str_strip(new_sym) = << >>
       THEN /\ write = "accepted"
            /\ UNCHANGED custom_symptoms
            /\ RerunPredictor(predictions_data, predictions_raw, selected_symptoms,
                              custom_symptoms, symptom_free_text_input)
       ELSE /\ custom_symptoms' = Append(custom_symptoms, str_strip(new_sym))
            /\ IF write = "rejected"
               THEN shown' = Exception(StreamlitAPIException)
               ELSE RerunPredictor(predictions_data, predictions_raw, selected_symptoms,
                                   Append(custom_symptoms, str_strip(new_sym)),
                                   symptom_free_text_input)
  /\ last' = NoAnalysis
  /\ UNCHANGED <<selected_symptoms, symptom_free_text_input, predictions_data,
                 predictions_raw, user_match, extractorVars, app, client, requests,
                 normVars, parseVars>>

\* line 382: the free text is edited
EditFreeText ==
  /\ app = "predictor"
  /\ \E free_text \in FreeTexts \ {symptom_free_text_input} :
       /\ symptom_free_text_input' = free_text
       /\ RerunPredictor(predictions_data, predictions_raw, selected_symptoms,
                         custom_symptoms, free_text)
  /\ last' = NoAnalysis
  /\ UNCHANGED <<selected_symptoms, custom_symptoms, predictions_data, predictions_raw,
                 user_match, extractorVars, app, client, requests, normVars, parseVars>>

\* lines 503-504: the checkbox user_match_{idx} of a displayed prediction
ToggleMatch ==
  /\ app = "predictor" /\ shown.kind = "predictions"
  /\ \E idx \in 1..Len(shown.items) :
       user_match' = IF idx \in user_match THEN user_match \ {idx} ELSE user_match \cup {idx}
  /\ RerunPredictor(predictions_data, predictions_raw, selected_symptoms, custom_symptoms,
                    symptom_free_text_input)
  /\ last' = NoAnalysis
  /\ UNCHANGED <<selected_symptoms, custom_symptoms, symptom_free_text_input,
                 predictions_data, predictions_raw, extractorVars, app, client, requests,
                 normVars, parseVars>>

\* lines 390-405: Clear All.  Line 393 assigns the key of the text area that
\* line 382 created: when the write is rejected the run ends there, after
\* lines 391-392 (the multiselect, still holding its value, fills
\* selected_symptoms again on the next run, line 365)
ClearAll ==
  /\ app = "predictor"
  /\ \E write \in WidgetKeyWrites :
       IF write = "rejected"
       THEN /\ custom_symptoms' = << >>
            /\ shown' = Exception(StreamlitAPIException)
            /\ UNCHANGED <<selected_symptoms, symptom_free_text_input, predictions_data,
                           predictions_raw, user_match>>
       ELSE /\ selected_symptoms' = << >> /\ custom_symptoms' = << >>
            /\ symptom_free_text_input' = << >>
            /\ predictions_data' = PyNone /\ predictions_raw' = PyNone
            /\ user_match' = {}
            /\ RerunPredictor(PyNone, PyNone, << >>, << >>, << >>)
  /\ last' = Ran("clear all", FALSE, 0, NoResponse)
  /\ UNCHANGED <<extractorVars, app, client, requests, normVars, parseVars>>

\* lines 554-583: Predict Top 3
PredictTop3 ==
  /\ app = "predictor"
  /\ LET checklist == selected_symptoms \o custom_symptoms
         ctext == combined_text_of(checklist, str_strip(symptom_free_text_input))
     IN  IF str_strip(ctext) = << >>
         THEN /\ shown' = [shown EXCEPT !.warning = TRUE]
              /\ last' = Ran("predict", TRUE, 0, NoResponse)
              /\ UNCHANGED <<predictorVars, requests>>
         ELSE \E resp \in GatewayOutcomes :
              \E res \in {call_gemini_for_symptoms(ctext, resp)} :
                LET data == IF /\ Truthy(res.data_obj) /\ res.data_obj.t = "obj"
                               /\ Truthy(dict_get(res.data_obj, k_predictions, PyNone))
                            THEN res.data_obj ELSE EmptyPredictions
                IN  /\ requests + res.sent <= MaxRequests
                    /\ predictions_raw' = JStr(res.raw_text)
                    /\ predictions_data' = data
                    /\ user_match' = {}
                    /\ requests' = requests + res.sent
                    /\ last' = Called("predict", res, resp)
                    /\ RerunPredictor(data, JStr(res.raw_text), selected_symptoms,
                                      custom_symptoms, symptom_free_text_input)
                    /\ UNCHANGED <<selected_symptoms, custom_symptoms,
                                   symptom_free_text_input>>
  /\ UNCHANGED <<extractorVars, app, client, normVars, parseVars>>

\* lines 300-305 of app.py: a file is put into the uploader or taken out
ChooseFile ==
  /\ app = "extractor"
  /\ uploaded_file' = ~uploaded_file
  /\ shown' = render_extractor(analysis_data, analysis_raw)
  /\ last' = NoAnalysis
  /\ UNCHANGED <<prescription_text, analysis_data, analysis_raw, predictorVars, app,
                 client, requests, normVars, parseVars>>

\* lines 316-322: the prescription text is edited
EditPrescriptionText ==
  /\ app = "extractor"
  /\ \E text \in PrescriptionTexts \ {prescription_text} : prescription_text' = text
  /\ shown' = render_extractor(analysis_data, analysis_raw)
  /\ last' = NoAnalysis
  /\ UNCHANGED <<uploaded_file, analysis_data, analysis_raw, predictorVars, app, client,
                 requests, normVars, parseVars>>

\* lines 330-334: Clear.  Line 331 assigns the key of the text area that
\* line 316 created: when the write is rejected the run ends there
ClearText ==
  /\ app = "extractor"
  /\ \E write \in WidgetKeyWrites :
       IF write = "rejected"
       THEN /\ shown' = Exception(StreamlitAPIException)
            /\ UNCHANGED <<prescription_text, analysis_data, analysis_raw>>
       ELSE /\ prescription_text' = << >>
            /\ analysis_data' = PyNone /\ analysis_raw' = PyNone
            /\ shown' = render_extractor(PyNone, PyNone)
  /\ last' = Ran("clear", FALSE, 0, NoResponse)
  /\ UNCHANGED <<uploaded_file, predictorVars, app, client, requests, normVars, parseVars>>

\* lines 451-456: Analyze File, a button enabled only with a file
AnalyzeFile ==
  /\ app = "extractor" /\ uploaded_file
  /\ \E resp \in GatewayOutcomes :
       \E res \in {process_prescription_with_gemini(<< >>, TRUE, resp)} :
           /\ requests + res.sent <= MaxRequests
           /\ analysis_data' = res.data_obj
           /\ analysis_raw' = JStr(res.raw_text)
           /\ requests' = requests + res.sent
           /\ last' = Called("analyze file", res, resp)
           /\ shown' = render_extractor(res.data_obj, JStr(res.raw_text))
  /\ UNCHANGED <<prescription_text, uploaded_file, predictorVars, app, client, normVars,
                 parseVars>>

\* lines 458-466: Analyze Text
AnalyzeText ==
  /\ app = "extractor"
  /\ IF str_strip(prescription_text) = << >>
     THEN /\ shown' = [shown EXCEPT !.warning = TRUE]
          /\ last' = Ran("analyze text", TRUE, 0, NoResponse)
          /\ UNCHANGED <<analysis_data, analysis_raw, requests>>
     ELSE \E resp \in GatewayOutcomes :
            \E res \in {process_prescription_with_gemini(prescription_text, FALSE, resp)} :
                /\ requests + res.sent <= MaxRequests
                /\ analysis_data' = res.data_obj
                /\ analysis_raw' = JStr(res.raw_text)
                /\ requests' = requests + res.sent
                /\ last' = Called("analyze text", res, resp)
                /\ shown' = render_extractor(res.data_obj, JStr(res.raw_text))
  /\ UNCHANGED <<prescription_text, uploaded_file, predictorVars, app, client, normVars,
                 parseVars>>

Next ==
  \/ PickSymptoms \/ AddSymptom \/ EditFreeText \/ ToggleMatch \/ ClearAll
  \/ PredictTop3
  \/ ChooseFile \/ EditPrescriptionText \/ ClearText \/ AnalyzeFile \/ AnalyzeText

Spec == Init /\ [][Next]_vars

(***************************************************************************)
(* Properties of the two scripts (Spec)                                    *)
(***************************************************************************)
AnalyzeOps == {"predict", "analyze file", "analyze text"}

\* the last run was an analysis that sent its request
Analyzed == last.op \in AnalyzeOps /\ ~last.blank /\ last.sent = 1

\* the structured-data slot and the raw slot of the script that runs
data_slot == IF app = "predictor" THEN predictions_data ELSE analysis_data

raw_slot == IF app = "predictor" THEN predictions_raw ELSE analysis_raw

\* the gateway answered with a text from which the script's parser gets no
\* object
Unparsed ==
  /\ Analyzed
  /\ ~read_response(last.resp).raised
  /\ read_response(last.resp).raw # << >>
  /\ last.returned[1] = PyNone

\* C7 as stated: in both scripts, after an analysis whose reply cannot be
\* parsed as JSON the structured-data slot is unset, the raw slot holds the
\* reply, and the render that follows shows that raw text.
C7_Original ==
  Unparsed =>
     /\ data_slot = PyNone
     /\ raw_slot = JStr(read_response(last.resp).raw)
     /\ shown.kind = "raw" /\ shown.raw = read_response(last.resp).raw

\* C7, the part that holds: the extractor leaves analysis_data unset, stores
\* the reply and shows it.
C7_ExtractorShowsRaw == (app = "extractor" /\ Unparsed) => C7_Original

C7_ExtractorWitness ==
  /\ app = "extractor" /\ Unparsed
  /\ shown.kind = "raw" /\ shown.raw = reply_prose

\* the gateway call of the last run raised: the request itself, or the
\* reading of a candidate that has no content
GatewayRaised == Analyzed /\ read_response(last.resp).raised

\* the gateway call of the last run returned no text
GatewayEmpty ==
  Analyzed /\ ~read_response(last.resp).raised /\ read_response(last.resp).raw = << >>

StartsWith(s, prefix) == Len(s) >= Len(prefix) /\ SubSeq(s, 1, Len(prefix)) = prefix

\* C8: a gateway call that raises and a gateway call that returns no text
\* both end inside the pipeline function: it returns None with a non-empty
\* diagnostic, which the handler stores in the raw slot; the diagnostic of a
\* raised error is the API-error prefix followed by the error's message, the
\* diagnostic of an empty response is the fixed empty-response text, and the
\* latter never starts with the former's prefix, so the two always differ.
C8_ErrorsBecomeDiagnostics ==
  /\ GatewayRaised =>
       /\ last.returned = <<PyNone, ApiErrorPrefix \o read_response(last.resp).message>>
       /\ raw_slot = JStr(last.returned[2])
  /\ GatewayEmpty =>
       /\ last.returned = <<PyNone, EmptyDiag>>
       /\ raw_slot = JStr(EmptyDiag)
  /\ (GatewayRaised \/ GatewayEmpty) =>
       /\ last.returned[2] # << >>
       /\ StartsWith(last.returned[2], ApiErrorPrefix) <=> GatewayRaised

C8_Witness ==
  /\ app = "extractor" /\ GatewayEmpty
  /\ analysis_data = PyNone /\ analysis_raw = JStr(EmptyDiag)
  /\ shown.kind = "raw" /\ shown.raw = EmptyDiag

\* the input of the handler that op names is blank in the current state
InputBlank(op) ==
  CASE op = "predict" ->
         str_strip(combined_text_of(selected_symptoms \o custom_symptoms,
                                    str_strip(symptom_free_text_input))) = << >>
    [] op = "analyze text" -> str_strip(prescription_text) = << >>
    [] OTHER -> FALSE

\* C9: every analysis step sends at most one request: exactly one when a
\* client is configured and the input is not blank; none without a client,
\* where the no-client diagnostic is returned and stored; none on a blank
\* input, where the warning is shown and the result slots stay as they were.
\* No other step sends a request.
C9_OneRequestPerAnalysis ==
  [][IF last'.op \in AnalyzeOps
     THEN /\ requests' = requests + (IF client /\ ~InputBlank(last'.op) THEN 1 ELSE 0)
          /\ last'.sent = requests' - requests
          /\ InputBlank(last'.op) =>
               /\ shown'.warning
               /\ UNCHANGED <<predictions_data, predictions_raw, analysis_data, analysis_raw>>
          /\ (~client /\ ~InputBlank(last'.op)) =>
               /\ last'.returned = <<PyNone, NoClientDiag>>
               /\ raw_slot' = JStr(NoClientDiag)
     ELSE requests' = requests]_vars

C9_Witness ==
  /\ client /\ requests = 1
  /\ last.op = "analyze text" /\ last.blank /\ shown.warning
  /\ analysis_raw # PyNone

ResetOps == {"clear all", "clear"}

\* the last run was an analysis that called the pipeline function and stored
\* what it returned
Completed == last.op \in AnalyzeOps /\ ~last.blank

\* lines 569-575: what Predict Top 3 stores for the object returned
stored_predictions(data_obj) ==
  IF /\ Truthy(data_obj) /\ data_obj.t = "obj"
     /\ Truthy(dict_get(data_obj, k_predictions, PyNone))
  THEN data_obj ELSE EmptyPredictions

\* C14 as stated: right after a completed analysis the two result slots hold
\* what that run's pipeline call returned and no user_match flag is set;
\* right after a reset (Clear All, Clear) both result slots are unset and no
\* user_match flag is set.
C14_Original ==
  /\ Completed =>
       /\ raw_slot = JStr(last.returned[2])
       /\ data_slot = IF app = "predictor" THEN stored_predictions(last.returned[1])
                                           ELSE last.returned[1]
       /\ user_match = {}
  /\ last.op \in ResetOps =>
       /\ data_slot = PyNone /\ raw_slot = PyNone
       /\ user_match = {}

\* C14, the part about analyses alone
C14_AnalysisReplaces == Completed => C14_Original

C14_AnalysisWitness ==
  /\ app = "predictor" /\ Completed /\ requests = 2
  /\ predictions_data # EmptyPredictions /\ user_match = {}

\* line 460: the condition that the results column shows at position idx
displayed_condition(s, idx) == dict_get(s.items[idx], k_disease, JStr(s_Unknown))

\* a run in which neither a completed analysis nor a reset took place
KeepsFlags == last.op \notin AnalyzeOps \cup ResetOps

\* C15 as stated: while a user_match flag of position idx stays set and no
\* analysis or reset runs, the condition displayed at position idx stays the
\* same, whatever the user edits (free text, checklist, custom symptom).
C15_Original ==
  [][\A idx \in user_match \cap user_match' :
       (/\ KeepsFlags'
        /\ shown.kind = "predictions" /\ idx <= Len(shown.items)
        /\ shown'.kind = "predictions" /\ idx <= Len(shown'.items))
         => displayed_condition(shown', idx) = displayed_condition(shown, idx)]_vars
(***************************************************************************)
(* SpecRender: the results column drawn from a session whose structured    *)
(* slot holds an object of any shape the model's JSON can have             *)
(***************************************************************************)
MaxInteractions == 3

MaxCandidates == 2

inter_high == JObj(<< <<<<"d","r","u","g","1">>, JStr(<<"W","a","r","f","a","r","i","n">>)>>, <<<<"d","r","u","g","2">>, JStr(<<"A","s","p","i","r","i","n">>)>>, <<<<"r","i","s","k","_","l","e","v","e","l">>, JStr(<<"H","i","g","h">>)>>, <<<<"e","f","f","e","c","t">>, JStr(<<"B","l","e","e","d","i","n","g">>)>> >>)

inter_upper == JObj(<< <<<<"d","r","u","g","1">>, JStr(<<"W","a","r","f","a","r","i","n">>)>>, <<<<"d","r","u","g","2">>, JStr(<<"I","b","u","p","r","o","f","e","n">>)>>, <<<<"r","i","s","k","_","l","e","v","e","l">>, JStr(<<"H","I","G","H">>)>> >>)

inter_moderate == JObj(<< <<<<"d","r","u","g","1">>, JStr(<<"L","i","s","i","n","o","p","r","i","l">>)>>, <<<<"d","r","u","g","2">>, JStr(<<"P","o","t","a","s","s","i","u","m">>)>>, <<<<"r","i","s","k","_","l","e","v","e","l">>, JStr(<<"m","o","d","e","r","a","t","e">>)>> >>)

inter_low == JObj(<< <<<<"d","r","u","g","1">>, JStr(<<"A","s","p","i","r","i","n">>)>>, <<<<"d","r","u","g","2">>, JStr(<<"A","n","t","a","c","i","d">>)>>, <<<<"r","i","s","k","_","l","e","v","e","l">>, JStr(<<"L","o","w">>)>> >>)

inter_other == JObj(<< <<<<"d","r","u","g","1">>, JStr(<<"A","s","p","i","r","i","n">>)>>, <<<<"d","r","u","g","2">>, JStr(<<"A","l","c","o","h","o","l">>)>>, <<<<"r","i","s","k","_","l","e","v","e","l">>, JStr(<<"S","e","v","e","r","e">>)>> >>)

inter_unrated == JObj(<< <<<<"d","r","u","g","1">>, JStr(<<"A","s","p","i","r","i","n">>)>>, <<<<"d","r","u","g","2">>, JStr(<<"C","a","f","f","e","i","n","e">>)>> >>)

inter_null == JObj(<< <<<<"d","r","u","g","1">>, JStr(<<"A","s","p","i","r","i","n">>)>>, <<<<"d","r","u","g","2">>, JStr(<<"Z","i","n","c">>)>>, <<<<"r","i","s","k","_","l","e","v","e","l">>, PyNone>> >>)

med_warfarin == JObj(<< <<<<"n","a","m","e">>, JStr(<<"W","a","r","f","a","r","i","n">>)>>, <<<<"d","o","s","a","g","e">>, JStr(<<"5"," ","m","g">>)>>, <<<<"s","i","d","e","_","e","f","f","e","c","t","s">>, JList(<<JStr(<<"B","l","e","e","d","i","n","g">>)>>)>> >>)

med_unnamed == JObj(<< <<<<"d","o","s","a","g","e">>, JStr(<<"1"," ","t","a","b","l","e","t">>)>>, <<<<"s","i","d","e","_","e","f","f","e","c","t","s">>, PyNone>> >>)

med_effects_count == JObj(<< <<<<"n","a","m","e">>, JStr(<<"A","s","p","i","r","i","n">>)>>, <<<<"s","i","d","e","_","e","f","f","e","c","t","s">>, JNum(2 * One)>> >>)

cand_full == JObj(<< <<<<"d","i","s","e","a","s","e">>, JStr(<<"P","C","O","S">>)>>, <<<<"p","r","o","b","a","b","i","l","i","t","y">>, JNum(70000)>>, <<<<"d","e","s","c","r","i","p","t","i","o","n">>, JStr(<<"H","o","r","m","o","n","a","l">>)>>, <<<<"p","r","e","c","a","u","t","i","o","n","s">>, JList(<<JStr(<<"E","x","e","r","c","i","s","e">>)>>)>>, <<<<"l","i","n","k","s">>, JList(<<JStr(<<"h","t","t","p","s",":","/","/","w","h","o",".","i","n","t">>)>>)>> >>)

cand_low == JObj(<< <<<<"d","i","s","e","a","s","e">>, JStr(<<"F","l","u">>)>>, <<<<"p","r","o","b","a","b","i","l","i","t","y">>, JNum(20000)>> >>)

cand_nulls == JObj(<< <<<<"d","i","s","e","a","s","e">>, PyNone>>, <<<<"p","r","o","b","a","b","i","l","i","t","y">>, PyNone>>, <<<<"d","e","s","c","r","i","p","t","i","o","n">>, PyNone>>, <<<<"p","r","e","c","a","u","t","i","o","n","s">>, PyNone>>, <<<<"l","i","n","k","s">>, PyNone>> >>)

cand_numbered == JObj(<< <<<<"d","i","s","e","a","s","e">>, JNum(7 * One)>>, <<<<"p","r","o","b","a","b","i","l","i","t","y">>, JNum(20000)>> >>)

cand_coded == JObj(<< <<<<"d","i","s","e","a","s","e">>, JNum(7 * One)>>, <<<<"p","r","o","b","a","b","i","l","i","t","y">>, JNum(90000)>> >>)

cand_precautions_count == JObj(<< <<<<"d","i","s","e","a","s","e">>, JStr(<<"G","o","u","t">>)>>, <<<<"p","r","o","b","a","b","i","l","i","t","y">>, JNum(80000)>>, <<<<"p","r","e","c","a","u","t","i","o","n","s">>, JNum(2 * One)>> >>)

cand_links_flag == JObj(<< <<<<"d","i","s","e","a","s","e">>, JStr(<<"G","o","u","t">>)>>, <<<<"p","r","o","b","a","b","i","l","i","t","y">>, JNum(80000)>>, <<<<"l","i","n","k","s">>, JBool(TRUE)>> >>)

SampleInteractions ==
  {inter_high, inter_upper, inter_moderate, inter_low, inter_other, inter_unrated, inter_null}

InteractionLists ==
  UNION {[1..n -> SampleInteractions] : n \in 0..MaxInteractions}

InteractionValues ==
  {JList(xs) : xs \in InteractionLists} \cup {PyNone, JStr(<<"n","o","n","e">>), JNum(One)}

MedicineValues ==
  {JList(<< >>), JList(<<med_warfarin>>), JList(<<med_unnamed, med_warfarin>>), PyNone,
   JStr(<<"A","s","p","i","r","i","n">>), JList(<<JStr(<<"A","s","p","i","r","i","n">>)>>), JList(<<med_effects_count>>)}

ExtractorObjects ==
  {JObj(<< <<k_medicines, m>>, <<k_interactions, i>> >>) :
     m \in MedicineValues, i \in InteractionValues}
  \cup {JObj(<< <<k_note, JStr(<<"N","o","t"," ","m","e","d","i","c","a","l"," ","a","d","v","i","c","e">>)>> >>)}

RenderCandidates ==
  {cand_full, cand_low, cand_nulls, cand_numbered, cand_coded, cand_precautions_count,
   cand_links_flag, JStr(<<"F","l","u">>)}

CandidateLists ==
  UNION {[1..n -> RenderCandidates] : n \in 1..MaxCandidates}

\* what "predictions" can hold when line 570 has stored the object: any
\* value that is not falsy
PredictionValues ==
  {JList(xs) : xs \in CandidateLists}
  \cup {JNum(One), JBool(TRUE), JStr(<<"n","o","n","e">>), cand_low}

PredictorObjects == {JObj(<< <<k_predictions, v>> >>) : v \in PredictionValues}

\* the session after an analysis has stored its object, before the script
\* runs again
InitRender ==
  /\ app \in {"extractor", "predictor"}
  /\ client = TRUE /\ requests = 0 /\ last = NoAnalysis
  /\ IF app = "extractor"
     THEN /\ analysis_data \in ExtractorObjects /\ analysis_raw = JStr(reply_prescription)
          /\ predictions_data = PyNone /\ predictions_raw = PyNone
     ELSE /\ predictions_data \in PredictorObjects
          /\ predictions_raw = JStr(reply_predictions)
          /\ analysis_data = PyNone /\ analysis_raw = PyNone
  /\ prescription_text = << >> /\ uploaded_file = FALSE
  /\ selected_symptoms = << >> /\ custom_symptoms = << >>
  /\ symptom_free_text_input = << >>
  /\ user_match = {}
  /\ shown = NothingShown
  /\ NormIdle /\ ParseIdle

NextRender == ChooseFile \/ PickSymptoms

SpecRender == InitRender /\ [][NextRender]_vars

(***************************************************************************)
(* Properties of the rendering (SpecRender)                                *)
(***************************************************************************)
\* C16 as stated: whatever the object stored holds (keys missing, values
\* null or of another type), drawing the medicines, the interactions and the
\* predictions ends without an exception.
C16_Original == shown.kind # "exception"

\* the objects whose fields have the expected types are drawn
C16_ExpectedShapesDrawn ==
  /\ (app = "predictor" /\ predictions_data = JObj(<< <<k_predictions, JList(<<cand_low, cand_full>>)>> >>)
      /\ shown # NothingShown)
       => shown.kind = "predictions" /\ Len(shown.items) = 2
  /\ (app = "predictor" /\ predictions_data = JObj(<< <<k_predictions, JList(<<cand_nulls>>)>> >>)
      /\ shown # NothingShown)
       => shown.kind \in {"predictions", "no predictions"}

InteractionsOf == dict_get(analysis_data, k_interactions, JList(<< >>))

\* the extractor has drawn an object with a non-empty interaction list, the
\* medicines without an error
HasInteractionList ==
  /\ app = "extractor" /\ shown # NothingShown /\ Truthy(analysis_data)
  /\ InteractionsOf.t = "list" /\ InteractionsOf.xs # << >>
  /\ medicines_error(dict_get(analysis_data, k_medicines, JList(<< >>))) = NoError

\* interaction x belongs to the level: its risk_level is that text, whatever
\* the case of its letters
OfLevel(x, level) ==
  /\ x.t = "obj" /\ dict_get(x, k_risk_level, JStr(<< >>)).t = "str"
  /\ str_lower(dict_get(x, k_risk_level, JStr(<< >>)).s) = str_lower(level)

Members(xs, level) == {i \in 1..Len(xs) : OfLevel(xs[i], level)}

\* the k-th member of the level, counted in the order of the list
MemberAt(xs, level, k) ==
  CHOOSE i \in Members(xs, level) :
    Cardinality({j \in Members(xs, level) : j < i}) = k - 1

RankOf(level) == CHOOSE l \in 1..Len(risk_order) : risk_order[l] = level

GroupedAsClaimed(xs, groups) ==
  /\ \A g \in 1..Len(groups) : \E l \in 1..Len(risk_order) : groups[g].level = risk_order[l]
  /\ \A g, h \in 1..Len(groups) : g < h => RankOf(groups[g].level) < RankOf(groups[h].level)
  /\ \A l \in 1..Len(risk_order) :
        Members(xs, risk_order[l]) # {} <=>
          \E g \in 1..Len(groups) : groups[g].level = risk_order[l]
  /\ \A g \in 1..Len(groups) :
        /\ groups[g].count = Cardinality(Members(xs, groups[g].level))
        /\ groups[g].cards =
             [k \in 1..groups[g].count |->
                interaction_card(xs[MemberAt(xs, groups[g].level, k)])]

\* C13 as stated: for any interaction list the groups are drawn in the order
\* High, Moderate, Low, an interaction belongs to the group whose name its
\* risk_level is (letter case ignored), an empty group is skipped, the count
\* of a group is the number of its interactions, and these keep the order of
\* the list.
C13_Original ==
  HasInteractionList =>
     /\ shown.kind = "analysis"
     /\ GroupedAsClaimed(InteractionsOf.xs, shown.groups)

\* every entry of the list is an object whose risk_level is a text or absent
RiskLevelsAreTexts ==
  \A i \in 1..Len(InteractionsOf.xs) :
     /\ InteractionsOf.xs[i].t = "obj"
     /\ dict_get(InteractionsOf.xs[i], k_risk_level, JStr(<< >>)).t = "str"

\* the grouping of C13 on the lists that line 386 can read
C13_GroupingOfTexts == (HasInteractionList /\ RiskLevelsAreTexts) => C13_Original

C13_GroupingWitness ==
  /\ HasInteractionList
  /\ InteractionsOf.xs = <<inter_low, inter_upper, inter_high>>
  /\ Len(shown.groups) = 2 /\ shown.groups[1].count = 2
  /\ shown.groups[1].cards[1] = interaction_card(inter_upper)
============================================================================
